---------------------------- MODULE Spec2Model ----------------------------
(***************************************************************************)
(* A model of the `simulations` crate: the bit-packed BitGrid storage, the *)
(* Grid trait's provided methods, and the BitFlipper traversal engine.     *)
(*                                                                         *)
(* The specifications share the variables:                                 *)
(*   Spec         BitGrid driven with in-range coordinates (get, set,      *)
(*                flip, fill, clear, diff_with and the trait's default     *)
(*                methods);                                                *)
(*   SpecIdx      BitGrid driven with raw signed coordinates, in range or  *)
(*                not, to exercise the wrap arithmetic of idx;             *)
(*   SpecNew      BitGrid::new of every dimension and the reads of it;     *)
(*   SpecFlipper  a BitFlipper over a BitGrid driven by step(n);           *)
(*   SpecDiagonal a BitFlipper of direction (1, 1, 1) on a cube;           *)
(*   SpecMultiple the i32 arithmetic of next_multiple_of_n_in_direction;   *)
(*   SpecSims     Life and Elementry driven by step();                     *)
(*   SpecParse    BitGrid::parse of a text;                                *)
(*   SpecSetDir   a BitFlipper driven by step(n) and then set_dir;         *)
(*   SpecTwins    two BitFlippers of one direction over grids of the same  *)
(*                dimensions and different contents, stepped together;     *)
(*   SpecSigns    two BitFlippers whose directions differ in the signs of  *)
(*                their components only, stepped together;                 *)
(*   SpecRecur    a BitFlipper of a nonzero direction driven by step(1)    *)
(*                for ever.                                                *)
(***************************************************************************)
EXTENDS Integers, Sequences, FiniteSets, TLC

VARIABLES
    grid,             \* the BitGrid: [width, height, depth, buf]
    overflow_checks,  \* build profile: TRUE = debug (overflow panics), FALSE = release (wraps)
    panicked,         \* a panic! has unwound the program
    call,             \* the last call made on the grid: [op, x, y, z, elem]
    ret,              \* what the last call returned
    pre,              \* the buffer immediately before the last call
    pos,              \* BitFlipper.pos
    dir,              \* BitFlipper.dir
    dir_sign,         \* BitFlipper.dir_sign
    flipped,          \* TestGridWithMut.flipped: calls the last step made on the backing grid
    prev,             \* BitFlipper history: the last step's n and the state before it
    sim,              \* the Life or Elementry whose cells are grid: [kind, scratch, rule, gen]
    text,             \* the arguments of BitGrid::parse: [lines, set]
    twin              \* a second BitFlipper: [pos, dir, dir_sign, grid, flipped, panicked]

vars ==
    <<grid, overflow_checks, panicked, call, ret, pre, pos, dir, dir_sign, flipped, prev, sim,
      text, twin>>

gridVars == <<grid, overflow_checks, panicked, call, ret, pre>>
flipperVars == <<pos, dir, dir_sign, flipped, prev, twin>>

---------------------------------------------------------------------------
(* Bounds of the model *)

MaxW == 3
MaxH == 3
MaxD == 2
\* largest number of cells of a grid of Spec
MaxCells == 9
\* largest number of cells of a grid of SpecIdx
MaxRawCells == 4
\* how far below -extent and above 2*extent a raw coordinate may lie
Slack == 1

---------------------------------------------------------------------------
(* u8 arithmetic: a byte is an integer 0..255 *)

BitIdx == 0..7

Pow2(b) == 2 ^ b

\* (byte & (1 << b)) != 0
TestBit(byte, b) == (byte \div Pow2(b)) % 2 = 1

\* bit b of a byte, as 0 or 1
BitOf(byte, b) == (byte \div Pow2(b)) % 2

\* combine two bytes bit by bit with f, a function on <<0 or 1, 0 or 1>>
BitTerm(f, a, b, i) == f[<<BitOf(a, i), BitOf(b, i)>>] * Pow2(i)

Bitwise(f, a, b) ==
    BitTerm(f, a, b, 0) + BitTerm(f, a, b, 1) + BitTerm(f, a, b, 2) + BitTerm(f, a, b, 3)
        + BitTerm(f, a, b, 4) + BitTerm(f, a, b, 5) + BitTerm(f, a, b, 6) + BitTerm(f, a, b, 7)

Bit01 == {0, 1} \X {0, 1}
AndTable == [p \in Bit01 |-> p[1] * p[2]]
OrTable  == [p \in Bit01 |-> IF p[1] + p[2] > 0 THEN 1 ELSE 0]
XorTable == [p \in Bit01 |-> (p[1] + p[2]) % 2]

BitAnd(a, b) == Bitwise(AndTable, a, b)
BitOr(a, b)  == Bitwise(OrTable, a, b)
BitXor(a, b) == Bitwise(XorTable, a, b)
BitNot(a)    == 255 - a

\* u8::count_ones, u8::count_zeros
count_ones(byte) ==
    BitOf(byte, 0) + BitOf(byte, 1) + BitOf(byte, 2) + BitOf(byte, 3)
        + BitOf(byte, 4) + BitOf(byte, 5) + BitOf(byte, 6) + BitOf(byte, 7)
count_zeros(byte) ==
    (1 - BitOf(byte, 0)) + (1 - BitOf(byte, 1)) + (1 - BitOf(byte, 2)) + (1 - BitOf(byte, 3))
        + (1 - BitOf(byte, 4)) + (1 - BitOf(byte, 5)) + (1 - BitOf(byte, 6)) + (1 - BitOf(byte, 7))

RECURSIVE SumSeq(_)
SumSeq(s) == IF s = <<>> THEN 0 ELSE Head(s) + SumSeq(Tail(s))

\* usize::div_ceil
div_ceil(n, k) == (n + k - 1) \div k

\* Rust's % on i32: the remainder takes the sign of the dividend (b > 0 here)
RustRem(a, b) == IF a >= 0 THEN a % b ELSE -((-a) % b)

\* Rust's / on i32: truncates toward zero (b > 0 here)
RustDiv(a, b) == IF a >= 0 THEN a \div b ELSE -((-a) \div b)

Abs(a) == IF a < 0 THEN -a ELSE a
Signum(a) == IF a < 0 THEN -1 ELSE IF a > 0 THEN 1 ELSE 0
Max(a, b) == IF a >= b THEN a ELSE b

---------------------------------------------------------------------------
(* usize arithmetic.  A usize value v is held as [hi, lo] with               *)
(* v = hi * 2^64 + lo and |lo| far below 2^64, so that the cast of a        *)
(* negative i32 and the overflow of + and * are exact without 64-bit        *)
(* integers.  ovf records that an operation overflowed.                     *)

\* `c as usize` for an i32 c: a negative c becomes 2^64 + c
AsUsize(c) == [hi |-> IF c < 0 THEN 1 ELSE 0, lo |-> c, ovf |-> FALSE]

\* the value does not fit 64 bits
UOverflows(hi, lo) == hi >= 2 \/ (hi = 1 /\ lo >= 0)

\* reduce modulo 2^64 (what a release build keeps), remembering the overflow
UNorm(hi, lo, ovf) ==
    [hi  |-> IF lo < 0 THEN 1 ELSE 0,
     lo  |-> lo,
     ovf |-> ovf \/ UOverflows(hi, lo)]

UAdd(a, b) == UNorm(a.hi + b.hi, a.lo + b.lo, a.ovf \/ b.ovf)
UMul(a, b) == UNorm(a.hi * b.lo + a.lo * b.hi + (IF a.hi * b.hi > 0 THEN 2 ELSE 0),
                    a.lo * b.lo, a.ovf \/ b.ovf)

---------------------------------------------------------------------------
(* BitGrid *)

Cells(w, h, d) == w * h * d

Zeros(n) == [i \in 1..n |-> 0]

\* a variant of new that rounds the buffer length down
new_floor(width, height, depth) ==
    [width  |-> width,
     height |-> height,
     depth  |-> depth,
     buf    |-> Zeros((width * height * depth) \div 8)]

\* a variant of new whose buffer starts with every bit set
new_dirty(width, height, depth) ==
    [width  |-> width,
     height |-> height,
     depth  |-> depth,
     buf    |-> [i \in 1..div_ceil(width * height * depth, 8) |-> 255]]

\* BitGrid::new
new(width, height, depth) ==
    [width  |-> width,
     height |-> height,
     depth  |-> depth,
     buf    |-> Zeros(div_ceil(width * height * depth, 8))]

\* the x, y, z ranges of the loops `for x in 0..grid.width()`
Xs(g) == 0..(g.width - 1)
Ys(g) == 0..(g.height - 1)
Zs(g) == 0..(g.depth - 1)

InRange(g) == Xs(g) \X Ys(g) \X Zs(g)

\* BitGrid::idx, after the wrap: (byte, bit) of the linear index i.
\* ovf: the usize arithmetic overflowed (a panic in a build with overflow checks).
\* big: the byte index is 2^61 or more (the linear index wrapped below 2^64).
idx_pack(wx, wy, wz, i) ==
    [wx   |-> wx, wy |-> wy, wz |-> wz,
     ovf  |-> i.ovf,
     big  |-> i.hi > 0,
     byte |-> IF i.hi > 0 THEN 0 ELSE i.lo \div 8,
     bit  |-> IF i.hi > 0 THEN (8 + (i.lo % 8)) % 8 ELSE i.lo % 8]

\* a variant of idx_linear whose rows are height cells long
idx_linear_by_height(g, wx, wy, wz) ==
    idx_pack(wx, wy, wz,
             UAdd(UAdd(AsUsize(wx), UMul(AsUsize(wy), AsUsize(g.height))),
                  UMul(AsUsize(wz), AsUsize(g.width * g.height))))

\* BitGrid::idx, after the wrap: i = x + y * width + z * (width * height) in usize
idx_linear(g, wx, wy, wz) ==
    idx_pack(wx, wy, wz,
             UAdd(UAdd(AsUsize(wx), UMul(AsUsize(wy), AsUsize(g.width))),
                  UMul(AsUsize(wz), AsUsize(g.width * g.height))))

\* a variant of wrap that omits the + extent
wrap_no_add(c, extent) == RustRem(c, extent)

\* BitGrid::idx, the wrap of one coordinate: (c + extent) % extent
wrap(c, extent) == RustRem(c + extent, extent)

\* BitGrid::idx
idx(g, x, y, z) ==
    idx_linear(g, wrap(x, g.width), wrap(y, g.height), wrap(z, g.depth))

\* the call panics: idx overflowed under overflow checks, or self.buf[idx] is out of bounds
Faults(g, a) == (a.ovf /\ overflow_checks) \/ a.big \/ a.byte >= Len(g.buf)

\* (self.buf[idx] & mask) != 0
get_at(g, a) == TestBit(g.buf[a.byte + 1], a.bit)

\* BitGrid::get, where idx resolves inside the buffer
get(g, x, y, z) == get_at(g, idx(g, x, y, z))

\* a variant of set that omits the &= !mask
set_at_or_only(g, a, elem) ==
    [g EXCEPT !.buf[a.byte + 1] = BitOr(g.buf[a.byte + 1], (IF elem THEN 1 ELSE 0) * Pow2(a.bit))]

\* self.buf[idx] &= !mask; self.buf[idx] |= (elem as u8) << bit
set_at(g, a, elem) ==
    [g EXCEPT !.buf[a.byte + 1] =
        BitOr(BitAnd(g.buf[a.byte + 1], BitNot(Pow2(a.bit))),
              (IF elem THEN 1 ELSE 0) * Pow2(a.bit))]

\* BitGrid::set: the grid afterwards
set(g, x, y, z, elem) == set_at(g, idx(g, x, y, z), elem)

\* a variant of flip that writes |= where the code writes ^=
flip_at_or(g, a) ==
    [g EXCEPT !.buf[a.byte + 1] = BitOr(g.buf[a.byte + 1], Pow2(a.bit))]

\* a variant of flip that inverts the whole byte
flip_at_byte(g, a) ==
    [g EXCEPT !.buf[a.byte + 1] = BitXor(g.buf[a.byte + 1], 255)]

\* self.buf[idx] ^= 1 << bit
flip_at(g, a) ==
    [g EXCEPT !.buf[a.byte + 1] = BitXor(g.buf[a.byte + 1], Pow2(a.bit))]

\* BitGrid::flip: the grid afterwards
flip(g, x, y, z) == flip_at(g, idx(g, x, y, z))

\* BitGrid::is_empty
is_empty(g) == \A i \in 1..Len(g.buf) : g.buf[i] = 0

\* BitGrid::count_set
count_set(g) == SumSeq([i \in 1..Len(g.buf) |-> count_ones(g.buf[i])])

\* BitGrid::count_unset
count_unset(g) == SumSeq([i \in 1..Len(g.buf) |-> count_zeros(g.buf[i])])

\* <BitGrid as Grid>::fill
BitGrid_fill(g, v) ==
    IF v
    THEN [g EXCEPT !.buf = [i \in 1..Len(g.buf) |-> 0]]
    ELSE [g EXCEPT !.buf = [i \in 1..Len(g.buf) |-> 255]]

\* the coordinates in the order of the nested loops z, y, x
LoopOrder(g) ==
    [k \in 1..Cells(g.width, g.height, g.depth) |->
        <<(k - 1) % g.width,
          ((k - 1) \div g.width) % g.height,
          (k - 1) \div (g.width * g.height)>>]

RECURSIVE SetAll(_, _, _)
SetAll(g, cs, v) ==
    IF cs = <<>> THEN g
    ELSE SetAll(set(g, Head(cs)[1], Head(cs)[2], Head(cs)[3], v), Tail(cs), v)

\* Grid::fill, the provided method: nested loops calling set
Grid_fill(g, v) == SetAll(g, LoopOrder(g), v)

\* Grid::flip, the provided method: get, then set(!old)
Grid_flip(g, x, y, z) == set(g, x, y, z, ~get(g, x, y, z))

\* the loops of new_with_fn over the cells cs; a grid without bytes has no cell to visit
RECURSIVE SetByFn(_, _, _)
SetByFn(g, cs, f) ==
    IF cs = <<>> \/ g.buf = <<>> THEN g
    ELSE SetByFn(set(g, Head(cs)[1], Head(cs)[2], Head(cs)[3], f[Head(cs)]),
                 Tail(cs), f)

new_with_fn_loop(g, f) == SetByFn(g, LoopOrder(g), f)

\* BitGrid::new_with_fn
new_with_fn(width, height, depth, f) == new_with_fn_loop(new(width, height, depth), f)

\* BitGrid::diff_with: the asserts
diff_with_asserts(g, other) == g.width = other.width /\ g.height = other.height

Min(a, b) == IF a <= b THEN a ELSE b

\* a variant of diff_with_zip that writes a | b
diff_with_zip_or(g, other, d) ==
    [d EXCEPT !.buf = [i \in 1..Len(d.buf) |->
        IF i <= Min(Len(g.buf), Len(other.buf))
        THEN BitOr(g.buf[i], other.buf[i])
        ELSE d.buf[i]]]

\* BitGrid::diff_with: the grid returned when the asserts pass
diff_with_zip(g, other, d) ==
    [d EXCEPT !.buf = [i \in 1..Len(d.buf) |->
        IF i <= Min(Len(g.buf), Len(other.buf))
        THEN BitXor(g.buf[i], other.buf[i])
        ELSE d.buf[i]]]

diff_with(g, other) == diff_with_zip(g, other, new(g.width, g.height, g.depth))

---------------------------------------------------------------------------
(* Inputs *)

Dims == {d \in (1..MaxW) \X (1..MaxH) \X (1..MaxD) : Cells(d[1], d[2], d[3]) <= MaxCells}

RawDims == {d \in Dims : Cells(d[1], d[2], d[3]) <= MaxRawCells}

\* raw coordinates on an axis of extent E
Raw(E) == (-E - Slack)..(2 * E + Slack)

RawCoords(g) == Raw(g.width) \X Raw(g.height) \X Raw(g.depth)

\* cell initialisers handed to new_with_fn
CellFns(w, h, d) ==
    LET C == (0..(w - 1)) \X (0..(h - 1)) \X (0..(d - 1))
    IN  {[c \in C |-> TRUE],
         [c \in C |-> (c[1] + c[2] + c[3]) % 2 = 0]}

\* the number of axes on which two extents differ
AxesDiffering(d, e) ==
    (IF d[1] = e[1] THEN 0 ELSE 1) + (IF d[2] = e[2] THEN 0 ELSE 1)
        + (IF d[3] = e[3] THEN 0 ELSE 1)

\* the grids diff_with is handed: a clone of the grid, grids of its dimensions built by
\* new_with_fn, and fresh grids whose dimensions differ on one axis
Others(g) ==
    {g}
    \cup {new_with_fn(g.width, g.height, g.depth, f) : f \in CellFns(g.width, g.height, g.depth)}
    \cup {new(d[1], d[2], d[3]) : d \in {e \in Dims : AxesDiffering(e, <<g.width, g.height, g.depth>>) = 1}}

\* coordinates outside the range that FlipTwice is also driven with
Probes(g) ==
    {<<-1, -1, -1>>,
     <<g.width, g.height, g.depth>>,
     <<-g.width, -g.height, -g.depth>>,
     <<-g.width - 1, g.height - 1, g.depth - 1>>}

NoCall == [op |-> "new", x |-> 0, y |-> 0, z |-> 0, elem |-> FALSE]
Idle == [op |-> "idle", x |-> 0, y |-> 0, z |-> 0, elem |-> FALSE]
\* what a call returned: nothing, a bool (b), two bools (b, b2), a count (n) or a grid
\* (diff, from other)
NoGrid == [width |-> 0, height |-> 0, depth |-> 0, buf |-> <<>>]
NoRet ==
    [kind |-> "none", b |-> FALSE, b2 |-> FALSE, n |-> 0, diff |-> NoGrid, other |-> NoGrid]
RetBool(b) == [NoRet EXCEPT !.kind = "bool", !.b = b]
RetBools(b, b2) == [NoRet EXCEPT !.kind = "bools", !.b = b, !.b2 = b2]
RetCount(n) == [NoRet EXCEPT !.kind = "count", !.n = n]
RetGrid(d, o) == [NoRet EXCEPT !.kind = "grid", !.diff = d, !.other = o]

Call(op, x, y, z, elem) == [op |-> op, x |-> x, y |-> y, z |-> z, elem |-> elem]

---------------------------------------------------------------------------
(* BitGrid actions *)

\* no BitFlipper call is on record
NoPrev ==
    [pos |-> <<0, 0, 0>>, dir_sign |-> <<1, 1, 1>>,
     mid |-> [pos |-> <<0, 0, 0>>, dir |-> <<0, 0, 0>>, dir_sign |-> <<1, 1, 1>>,
              grid |-> NoGrid, flipped |-> <<>>, panicked |-> FALSE]]

\* no text has been handed to parse: lines are the lines of the text, set the marker chars
NoText == [lines |-> <<>>, set |-> {}]

\* no simulation owns the grid; gen counts the steps since construction
NoSim == [kind |-> "none", scratch |-> NoGrid, rule |-> 0, gen |-> 0]

\* no second BitFlipper
NoTwin ==
    [pos |-> <<0, 0, 0>>, dir |-> <<0, 0, 0>>, dir_sign |-> <<1, 1, 1>>,
     grid |-> NoGrid, flipped |-> <<>>, panicked |-> FALSE]

FlipperIdle ==
    /\ pos = <<0, 0, 0>>
    /\ dir = <<0, 0, 0>>
    /\ dir_sign = <<1, 1, 1>>
    /\ flipped = <<>>
    /\ prev = NoPrev
    /\ twin = NoTwin

InitGridIn(D, builds) ==
    /\ \E d \in D : grid = new(d[1], d[2], d[3])
    /\ overflow_checks \in builds
    /\ panicked = FALSE
    /\ call = NoCall
    /\ ret = NoRet
    /\ pre = grid.buf
    /\ FlipperIdle
    /\ sim = NoSim
    /\ text = NoText

\* in-range coordinates never overflow: Spec runs the build of `cargo test`
Init == InitGridIn(Dims, {TRUE})

InitIdx == InitGridIn(RawDims, BOOLEAN)

\* the program is running and the result of the previous call has been consumed
Ready == ~panicked /\ call.op \in {"new", "idle"}

\* a call that panics: nothing is written, the program unwinds
Panic(op, x, y, z, elem) ==
    /\ panicked' = TRUE
    /\ call' = Call(op, x, y, z, elem)
    /\ ret' = NoRet
    /\ pre' = grid.buf
    /\ UNCHANGED <<grid, overflow_checks, sim, text>>

\* a call that returns r and leaves the grid g
Done(op, x, y, z, elem, g, r) ==
    /\ grid' = g
    /\ call' = Call(op, x, y, z, elem)
    /\ ret' = r
    /\ pre' = grid.buf
    /\ UNCHANGED <<panicked, overflow_checks, sim, text>>

\* the caller has consumed the result of the last call: its record is dropped
Return ==
    /\ ~panicked
    /\ call.op \notin {"new", "idle"}
    /\ call' = Idle
    /\ ret' = NoRet
    /\ pre' = grid.buf
    /\ UNCHANGED <<grid, panicked, overflow_checks, sim, text>>
    /\ UNCHANGED flipperVars

Get(x, y, z) ==
    /\ Ready
    /\ IF Faults(grid, idx(grid, x, y, z))
       THEN Panic("get", x, y, z, FALSE)
       ELSE Done("get", x, y, z, FALSE, grid, RetBool(get(grid, x, y, z)))
    /\ UNCHANGED flipperVars

Set(x, y, z, elem) ==
    /\ Ready
    /\ IF Faults(grid, idx(grid, x, y, z))
       THEN Panic("set", x, y, z, elem)
       ELSE Done("set", x, y, z, elem, set(grid, x, y, z, elem), RetBool(get(grid, x, y, z)))
    /\ UNCHANGED flipperVars

Flip(x, y, z) ==
    /\ Ready
    /\ IF Faults(grid, idx(grid, x, y, z))
       THEN Panic("flip", x, y, z, FALSE)
       ELSE Done("flip", x, y, z, FALSE, flip(grid, x, y, z), RetBool(get(grid, x, y, z)))
    /\ UNCHANGED flipperVars

\* Grid::flip as provided by the trait, on a grid that does not override it
DefaultFlip(x, y, z) ==
    /\ Ready
    /\ Done("Grid::flip", x, y, z, FALSE, Grid_flip(grid, x, y, z), RetBool(get(grid, x, y, z)))
    /\ UNCHANGED flipperVars

\* flip(c); flip(c): ret holds both return values, pre the buffer before the first.
\* The dimensions do not change, so the second call faults where the first does.
FlipTwice(x, y, z) ==
    /\ Ready
    /\ IF Faults(grid, idx(grid, x, y, z))
       THEN Panic("flip;flip", x, y, z, FALSE)
       ELSE Done("flip;flip", x, y, z, FALSE, flip(flip(grid, x, y, z), x, y, z),
                 RetBools(get(grid, x, y, z), get(flip(grid, x, y, z), x, y, z)))
    /\ UNCHANGED flipperVars

Fill(v) ==
    /\ Ready
    /\ Done("fill", 0, 0, 0, v, BitGrid_fill(grid, v), NoRet)
    /\ UNCHANGED flipperVars

\* Grid::fill as provided by the trait, on a grid that does not override it
DefaultFill(v) ==
    /\ Ready
    /\ Done("Grid::fill", 0, 0, 0, v, Grid_fill(grid, v), NoRet)
    /\ UNCHANGED flipperVars

\* Grid::clear: self.fill(false)
Grid_clear(g) == BitGrid_fill(g, FALSE)

\* Grid::clear on a BitGrid
Clear ==
    /\ Ready
    /\ Done("clear", 0, 0, 0, FALSE, Grid_clear(grid), NoRet)
    /\ UNCHANGED flipperVars

\* Life::clear, the grid being the simulation's cells
Life_clear ==
    /\ Ready
    /\ grid.depth = 1
    /\ Done("Life::clear", 0, 0, 0, FALSE, Grid_clear(grid), NoRet)
    /\ UNCHANGED flipperVars

\* Elementry::clear, the grid being the simulation's cells
Elementry_clear ==
    /\ Ready
    /\ grid.height = 1 /\ grid.depth = 1
    /\ Done("Elementry::clear", 0, 0, 0, FALSE, BitGrid_fill(grid, FALSE), NoRet)
    /\ UNCHANGED flipperVars

\* Elementry::clear_alive, the grid being the simulation's cells
Elementry_clear_alive ==
    /\ Ready
    /\ grid.height = 1 /\ grid.depth = 1
    /\ Done("Elementry::clear_alive", 0, 0, 0, TRUE, BitGrid_fill(grid, TRUE), NoRet)
    /\ UNCHANGED flipperVars

DiffWith(other) ==
    /\ Ready
    /\ IF diff_with_asserts(grid, other)
       THEN Done("diff_with", other.width, other.height, other.depth, FALSE, grid,
                 RetGrid(diff_with(grid, other), other))
       ELSE Panic("diff_with", other.width, other.height, other.depth, FALSE)
    /\ UNCHANGED flipperVars

Next ==
    \/ Ready /\ \E c \in InRange(grid) : Get(c[1], c[2], c[3])
    \/ Ready /\ \E c \in InRange(grid), v \in BOOLEAN : Set(c[1], c[2], c[3], v)
    \/ Ready /\ \E c \in InRange(grid) : Flip(c[1], c[2], c[3])
    \/ Ready /\ \E c \in InRange(grid) : DefaultFlip(c[1], c[2], c[3])
    \/ Ready /\ \E c \in InRange(grid) \cup Probes(grid) : FlipTwice(c[1], c[2], c[3])
    \/ Ready /\ \E v \in BOOLEAN : Fill(v)
    \/ Ready /\ \E v \in BOOLEAN : DefaultFill(v)
    \/ Clear
    \/ Life_clear
    \/ Elementry_clear
    \/ Elementry_clear_alive
    \/ Ready /\ \E other \in Others(grid) : DiffWith(other)
    \/ Return

Spec == Init /\ [][Next]_vars

NextIdx ==
    \/ Ready /\ \E c \in RawCoords(grid) : Get(c[1], c[2], c[3])
    \/ Ready /\ \E c \in RawCoords(grid), v \in BOOLEAN : Set(c[1], c[2], c[3], v)
    \/ Ready /\ \E c \in RawCoords(grid) : Flip(c[1], c[2], c[3])
    \/ Return

SpecIdx == InitIdx /\ [][NextIdx]_vars

---------------------------------------------------------------------------
(* BitFlipper over a BitGrid wrapped in TestGridWithMut *)

\* largest number of cells of a grid of SpecFlipper
MaxFlipCells == 4
\* largest magnitude of a direction component
MaxDir == 2
\* largest |n| of a step(n) call
MaxStep == 2

I32_MAX == 2147483647

FlipDims == {d \in Dims : Cells(d[1], d[2], d[3]) <= MaxFlipCells}

\* a direction component: zero, a unit step or the steepest step, either way
DirComponents == {-MaxDir, -1, 0, 1, MaxDir}

Dirs == DirComponents \X DirComponents \X DirComponents

\* self.dir.a.abs().max(1) * self.dir.b.abs().max(1): the scale of the third axis
Scale(da, db) == Max(Abs(da), 1) * Max(Abs(db), 1)

ScaleX(d) == Scale(d[2], d[3])
ScaleY(d) == Scale(d[1], d[3])
ScaleZ(d) == Scale(d[1], d[2])

\* BitFlipper::positive_modulo
positive_modulo(i, n) == RustRem(Abs(n) + RustRem(i, Abs(n)), Abs(n))

\* a variant of next_multiple_of_n_in_direction that stays on a multiple it is on
next_multiple_or_here(i, n, d) ==
    IF d < 0
    THEN -((-i) + positive_modulo(i, n))
    ELSE i + positive_modulo(-i, n)

\* BitFlipper::next_multiple_of_n_in_direction
next_multiple_of_n_in_direction(i, n, d) ==
    IF d < 0
    THEN -((-i) + Abs(-n) - positive_modulo(-i, -n))
    ELSE i + Abs(n) - positive_modulo(i, n)

\* BitFlipper::new_with_grid
new_with_grid(g, d) ==
    [pos |-> <<0, 0, 0>>, dir |-> d, dir_sign |-> <<1, 1, 1>>,
     grid |-> g, flipped |-> <<>>, panicked |-> FALSE]

\* a variant of reflect_axis without the test of the far boundary
reflect_axis_near_only(p, extent, scale, da, sign, d) ==
    IF p <= 0 THEN Signum(da) * Signum(d) ELSE sign

\* a variant of reflect_axis that turns only once past the far boundary
reflect_axis_past(p, extent, scale, da, sign, d) ==
    IF p > extent * scale
    THEN -Signum(da) * Signum(d)
    ELSE IF p <= 0 THEN Signum(da) * Signum(d) ELSE sign

\* a variant of reflect_axis that leaves out the signum of the direction
reflect_axis_unsigned(p, extent, scale, da, sign, d) ==
    IF p >= extent * scale
    THEN -Signum(d)
    ELSE IF p <= 0 THEN Signum(d) ELSE sign

\* a variant of reflect_axis that halts an axis at the far boundary
reflect_axis_halt(p, extent, scale, da, sign, d) ==
    IF p >= extent * scale
    THEN 0
    ELSE IF p <= 0 THEN Signum(da) * Signum(d) ELSE sign

\* flip_and_advance_once: the two boundary tests of one axis, in order
reflect_axis(p, extent, scale, da, sign, d) ==
    IF p >= extent * scale
    THEN -Signum(da) * Signum(d)
    ELSE IF p <= 0 THEN Signum(da) * Signum(d) ELSE sign

\* flip_and_advance_once, lines 86-108: dir_sign after the boundary tests
reflect(st, d) ==
    [st EXCEPT !.dir_sign =
        <<reflect_axis(st.pos[1], st.grid.width, ScaleX(st.dir), st.dir[1], st.dir_sign[1], d),
          reflect_axis(st.pos[2], st.grid.height, ScaleY(st.dir), st.dir[2], st.dir_sign[2], d),
          reflect_axis(st.pos[3], st.grid.depth, ScaleZ(st.dir), st.dir[3], st.dir_sign[3], d)>>]

\* a variant of edge without the tie-break
edge_no_tiebreak(p, d, da, sign) == p

\* flip_bit: pos.a -= 1 when the axis travels in the negative direction
edge(p, d, da, sign) == IF d * da * sign < 0 THEN p - 1 ELSE p

\* a variant of flip_cell that divides by one direction magnitude only
flip_cell_half_scaled(st, d) ==
    <<RustDiv(edge(st.pos[1], d, st.dir[1], st.dir_sign[1]), Max(Abs(st.dir[2]), 1)),
      RustDiv(edge(st.pos[2], d, st.dir[2], st.dir_sign[2]), Max(Abs(st.dir[1]), 1)),
      RustDiv(edge(st.pos[3], d, st.dir[3], st.dir_sign[3]), Max(Abs(st.dir[1]), 1))>>

\* flip_bit: the cell handed to grid.flip
flip_cell(st, d) ==
    <<RustDiv(RustDiv(edge(st.pos[1], d, st.dir[1], st.dir_sign[1]), Max(Abs(st.dir[2]), 1)),
              Max(Abs(st.dir[3]), 1)),
      RustDiv(RustDiv(edge(st.pos[2], d, st.dir[2], st.dir_sign[2]), Max(Abs(st.dir[1]), 1)),
              Max(Abs(st.dir[3]), 1)),
      RustDiv(RustDiv(edge(st.pos[3], d, st.dir[3], st.dir_sign[3]), Max(Abs(st.dir[1]), 1)),
              Max(Abs(st.dir[2]), 1))>>

\* TestGridWithMut::flip: log the call, then BitGrid::flip
logged_flip(st, c) ==
    IF Faults(st.grid, idx(st.grid, c[1], c[2], c[3]))
    THEN [st EXCEPT !.flipped = Append(@, <<"flip", c[1], c[2], c[3]>>), !.panicked = TRUE]
    ELSE [st EXCEPT !.flipped = Append(@, <<"flip", c[1], c[2], c[3]>>),
                    !.grid = flip(st.grid, c[1], c[2], c[3])]

\* a variant of flip_bit that goes through Grid::flip's provided get + set
flip_bit_get_set(st, d) ==
    [logged_flip(st, flip_cell(st, d)) EXCEPT
        !.flipped = st.flipped \o <<<<"get", flip_cell(st, d)[1], flip_cell(st, d)[2], flip_cell(st, d)[3]>>,
                                     <<"set", flip_cell(st, d)[1], flip_cell(st, d)[2], flip_cell(st, d)[3]>>>>]

\* BitFlipper::flip_bit
flip_bit(st, d) == logged_flip(st, flip_cell(st, d))

\* flip_and_advance_once, lines 112-130: the distance of each axis to its next crossing
dists(st, d) ==
    <<Abs(next_multiple_of_n_in_direction(st.pos[1], ScaleX(st.dir),
                                          st.dir[1] * st.dir_sign[1] * d) - st.pos[1]),
      Abs(next_multiple_of_n_in_direction(st.pos[2], ScaleY(st.dir),
                                          st.dir[2] * st.dir_sign[2] * d) - st.pos[2]),
      Abs(next_multiple_of_n_in_direction(st.pos[3], ScaleZ(st.dir),
                                          st.dir[3] * st.dir_sign[3] * d) - st.pos[3])>>

\* one `if dist > 0 && dist < move_amount { move_amount = dist }`
closer(dist, m) == IF dist > 0 /\ dist < m THEN dist ELSE m

\* a variant of move_amount that looks at the x axis only
move_amount_x(ds) == closer(ds[1], I32_MAX)

\* flip_and_advance_once, lines 132-142
move_amount(ds) == closer(ds[3], closer(ds[2], closer(ds[1], I32_MAX)))

\* a variant of advance that moves along x only
advance_x_only(st, d, m) ==
    [st EXCEPT !.pos[1] = @ + m * d * Signum(st.dir[1]) * st.dir_sign[1]]

\* a variant of advance that leaves out the signum of the direction
advance_any_dir(st, d, m) ==
    [st EXCEPT !.pos =
        <<st.pos[1] + m * d * st.dir_sign[1],
          st.pos[2] + m * d * st.dir_sign[2],
          st.pos[3] + m * d * st.dir_sign[3]>>]

\* flip_and_advance_once, lines 144-146
advance(st, d, m) ==
    [st EXCEPT !.pos =
        <<st.pos[1] + m * d * Signum(st.dir[1]) * st.dir_sign[1],
          st.pos[2] + m * d * Signum(st.dir[2]) * st.dir_sign[2],
          st.pos[3] + m * d * Signum(st.dir[3]) * st.dir_sign[3]>>]

\* a variant of advance_unless_panicked that stays where the cell flipped was the last set
advance_unless_cleared(st, d, m) ==
    IF st.panicked \/ is_empty(st.grid) THEN st ELSE advance(st, d, m)

\* a panic in flip unwinds before the advance
advance_unless_panicked(st, d, m) == IF st.panicked THEN st ELSE advance(st, d, m)

\* flip_and_advance_once after the boundary tests
flip_then_advance(st, d) ==
    advance_unless_panicked(flip_bit(st, d), d, move_amount(dists(st, d)))

\* BitFlipper::flip_and_advance_once
flip_and_advance_once(st, d) ==
    IF st.panicked THEN st ELSE flip_then_advance(reflect(st, d), d)

RECURSIVE Repeat(_, _, _)
Repeat(st, d, k) ==
    IF k = 0 THEN st ELSE Repeat(flip_and_advance_once(st, d), d, k - 1)

\* BitFlipper::step
step(st, n) == Repeat(st, Signum(n), Abs(n))

\* the BitFlipper held in the variables, with an empty log
Flipper ==
    [pos |-> pos, dir |-> dir, dir_sign |-> dir_sign,
     grid |-> grid, flipped |-> <<>>, panicked |-> panicked]

\* the cells a BitFlipper hands to flip are in range, where no build differs:
\* SpecFlipper runs the build of `cargo test`
InitFlipper ==
    /\ overflow_checks = TRUE
    /\ \E d \in FlipDims, v \in Dirs :
          /\ grid = new(d[1], d[2], d[3])
          /\ pos = new_with_grid(grid, v).pos
          /\ dir = new_with_grid(grid, v).dir
          /\ dir_sign = new_with_grid(grid, v).dir_sign
    /\ flipped = <<>>
    /\ panicked = FALSE
    /\ call = NoCall
    /\ ret = NoRet
    /\ pre = grid.buf
    /\ prev = NoPrev
    /\ twin = NoTwin
    /\ sim = NoSim
    /\ text = NoText

\* the variables after a call that left the BitFlipper st and the second BitFlipper tw
SteppedWith(op, n, st, before, tw) ==
    /\ pos' = st.pos
    /\ dir' = st.dir
    /\ dir_sign' = st.dir_sign
    /\ grid' = st.grid
    /\ flipped' = st.flipped
    /\ panicked' = st.panicked
    /\ call' = Call(op, n, 0, 0, FALSE)
    /\ ret' = NoRet
    /\ pre' = grid.buf
    /\ prev' = before
    /\ twin' = tw
    /\ UNCHANGED <<overflow_checks, sim, text>>

\* the variables after a call that left the BitFlipper st
Stepped(op, n, st, before) == SteppedWith(op, n, st, before, twin)

\* step(n)
Step(n) ==
    /\ Ready
    /\ Stepped("step", n, step(Flipper, n),
               [pos |-> pos, dir_sign |-> dir_sign, mid |-> Flipper])

ForthAndBack(n, mid) ==
    Stepped("step;step", n, step([mid EXCEPT !.flipped = <<>>], -n),
            [pos |-> pos, dir_sign |-> dir_sign, mid |-> mid])

\* step(n); step(-n): prev.mid is the BitFlipper between the two calls, with the log of
\* the first; flipped is the log of the second
StepForthAndBack(n) ==
    /\ Ready
    /\ ForthAndBack(n, step(Flipper, n))

\* the caller has looked at the BitFlipper: the record of the last call is dropped
ReturnFlipper ==
    /\ ~panicked
    /\ call.op \notin {"new", "idle"}
    /\ call' = Idle
    /\ ret' = NoRet
    /\ pre' = grid.buf
    /\ flipped' = <<>>
    /\ prev' = NoPrev
    /\ UNCHANGED <<grid, panicked, overflow_checks, pos, dir, dir_sign, sim, text, twin>>

NextFlipper ==
    \/ Ready /\ \E n \in (-MaxStep)..MaxStep : Step(n)
    \/ Ready /\ \E n \in 0..MaxStep : StepForthAndBack(n)
    \/ ReturnFlipper

SpecFlipper == InitFlipper /\ [][NextFlipper]_vars

---------------------------------------------------------------------------
(* BitGrid::new of every dimension, zero extents included, and the reads of  *)
(* the grid it returns                                                       *)

NewDims == (0..MaxW) \X (0..MaxH) \X (0..MaxD)

InitNew == InitGridIn(NewDims, {TRUE})

IsEmpty ==
    /\ Ready
    /\ Done("is_empty", 0, 0, 0, FALSE, grid, RetBool(is_empty(grid)))
    /\ UNCHANGED flipperVars

CountSet ==
    /\ Ready
    /\ Done("count_set", 0, 0, 0, FALSE, grid, RetCount(count_set(grid)))
    /\ UNCHANGED flipperVars

CountUnset ==
    /\ Ready
    /\ Done("count_unset", 0, 0, 0, FALSE, grid, RetCount(count_unset(grid)))
    /\ UNCHANGED flipperVars

NextNew ==
    \/ IsEmpty
    \/ CountSet
    \/ CountUnset
    \/ Ready /\ \E c \in InRange(grid) : Get(c[1], c[2], c[3])
    \/ Return

SpecNew == InitNew /\ [][NextNew]_vars

---------------------------------------------------------------------------
(* BitFlipper with direction (1, 1, 1) on an N x N x N grid, stepped forward  *)
(* from construction; flipped is the log of every flip since construction    *)
(* and prev.mid the BitFlipper as constructed                                *)

\* largest N
MaxN == 3
\* the sweeps from a corner to the opposite one and back that are followed
MaxSweeps == 2

\* the grids the BitFlipper is constructed with: fresh, and filled by new_with_fn
DiagonalGrids(N) ==
    {new(N, N, N)} \cup {new_with_fn(N, N, N, f) : f \in CellFns(N, N, N)}

InitDiagonal ==
    /\ overflow_checks = TRUE
    /\ \E N \in 1..MaxN : grid \in DiagonalGrids(N)
    /\ pos = new_with_grid(grid, <<1, 1, 1>>).pos
    /\ dir = new_with_grid(grid, <<1, 1, 1>>).dir
    /\ dir_sign = new_with_grid(grid, <<1, 1, 1>>).dir_sign
    /\ flipped = <<>>
    /\ panicked = FALSE
    /\ call = NoCall
    /\ ret = NoRet
    /\ pre = grid.buf
    /\ prev = [pos |-> <<0, 0, 0>>, dir_sign |-> <<1, 1, 1>>,
               mid |-> new_with_grid(grid, <<1, 1, 1>>)]
    /\ twin = NoTwin
    /\ sim = NoSim
    /\ text = NoText

\* step(n), n > 0, the log kept
StepOn(n) ==
    /\ ~panicked
    /\ Len(flipped) + n <= MaxSweeps * 2 * grid.width
    /\ Stepped("step", n, step([Flipper EXCEPT !.flipped = flipped], n), prev)

NextDiagonal == \E n \in 1..MaxStep : StepOn(n)

SpecDiagonal == InitDiagonal /\ [][NextDiagonal]_vars

---------------------------------------------------------------------------
(* BitFlipper::next_multiple_of_n_in_direction and positive_modulo on i32.   *)
(* An i32 operation yields [v, ovf]: v the value wrapped to 32 bits (what a  *)
(* build without overflow checks computes) and ovf whether it overflowed (a  *)
(* panic in a build with overflow checks).                                   *)

\* largest magnitude of the small arguments
MaxArg == 10

I32_MIN == -I32_MAX - 1

\* 2^30
I32_HALF == (I32_MAX \div 2) + 1

i32_abs(a) ==
    IF a = I32_MIN THEN [v |-> I32_MIN, ovf |-> TRUE] ELSE [v |-> Abs(a), ovf |-> FALSE]

i32_neg(a) ==
    IF a = I32_MIN THEN [v |-> I32_MIN, ovf |-> TRUE] ELSE [v |-> -a, ovf |-> FALSE]

i32_add(a, b) ==
    IF b > 0 /\ a > I32_MAX - b
    THEN [v |-> (a - I32_MAX - 1) + (b - I32_MAX - 1), ovf |-> TRUE]
    ELSE IF b < 0 /\ a < I32_MIN - b
    THEN [v |-> (a + I32_MAX + 1) + (b + I32_MAX + 1), ovf |-> TRUE]
    ELSE [v |-> a + b, ovf |-> FALSE]

i32_sub(a, b) ==
    IF b < 0 /\ a > I32_MAX + b
    THEN [v |-> (a - I32_MAX - 1) - (b + I32_MAX + 1), ovf |-> TRUE]
    ELSE IF b > 0 /\ a < I32_MIN + b
    THEN [v |-> (a + I32_MAX + 1) - (b - I32_MAX - 1), ovf |-> TRUE]
    ELSE [v |-> a - b, ovf |-> FALSE]

\* a % b on i32 for b > 0 or b = i32::MIN: the remainder takes the sign of a
i32_rem(a, b) ==
    IF b = I32_MIN THEN (IF a = I32_MIN THEN 0 ELSE a)
    ELSE IF a = I32_MIN THEN -(((I32_MAX % b) + 1) % b)
    ELSE RustRem(a, b)

\* (n.abs() + (i % n.abs())) % n.abs()
positive_modulo_i32(i, n) ==
    LET a == i32_abs(n)
        s == i32_add(a.v, i32_rem(i, a.v))
    IN  [v |-> i32_rem(s.v, a.v), ovf |-> a.ovf \/ s.ovf]

\* i + n.abs() - Self::positive_modulo(i, n)
next_multiple_above_i32(i, n) ==
    LET a  == i32_abs(n)
        s  == i32_add(i, a.v)
        pm == positive_modulo_i32(i, n)
        r  == i32_sub(s.v, pm.v)
    IN  [v |-> r.v, ovf |-> a.ovf \/ s.ovf \/ pm.ovf \/ r.ovf]

\* BitFlipper::next_multiple_of_n_in_direction on i32, dir # i32::MIN
next_multiple_of_n_in_direction_i32(i, n, d) ==
    IF d < 0
    THEN LET ni == i32_neg(i)
             nn == i32_neg(n)
             up == next_multiple_above_i32(ni.v, nn.v)
             r  == i32_neg(up.v)
         IN  [v |-> r.v, ovf |-> ni.ovf \/ nn.ovf \/ up.ovf \/ r.ovf]
    ELSE next_multiple_above_i32(i, n)

\* arguments near the ends and the middle of the i32 range
Extremes ==
    {I32_MIN, I32_MIN + 1, -I32_HALF - 1, -I32_HALF, I32_HALF, I32_HALF + 1,
     I32_MAX - 3, I32_MAX - 1, I32_MAX}

ArgsI == ((-MaxArg)..MaxArg) \cup Extremes
ArgsN == (((-MaxArg)..MaxArg) \ {0}) \cup Extremes
ArgsDir == ((-MaxDir)..MaxDir) \ {0}

InitMultiple == InitGridIn({<<1, 1, 1>>}, BOOLEAN)

\* a call of an i32 function that left r
Computed(op, i, n, d, r) ==
    /\ IF r.ovf /\ overflow_checks
       THEN Panic(op, i, n, d, FALSE)
       ELSE Done(op, i, n, d, FALSE, grid, RetCount(r.v))
    /\ UNCHANGED flipperVars

NextMultipleOfN(i, n, d) ==
    Computed("next_multiple_of_n_in_direction", i, n, d,
             next_multiple_of_n_in_direction_i32(i, n, d))

PositiveModulo(i, n) ==
    Computed("positive_modulo", i, n, 0, positive_modulo_i32(i, n))

NextMultiple ==
    \/ Ready /\ \E i \in ArgsI, n \in ArgsN, d \in ArgsDir : NextMultipleOfN(i, n, d)
    \/ Ready /\ \E i \in ArgsI, n \in ArgsN : PositiveModulo(i, n)
    \/ Return

SpecMultiple == InitMultiple /\ [][NextMultiple]_vars

---------------------------------------------------------------------------
(* Life and Elementry.  grid is the simulation's cells and sim.scratch its  *)
(* scratch grid.  The simulations address their cells with two coordinates  *)
(* (x, y); here the cells are a BitGrid of depth 1 addressed at z = 0.       *)

\* largest number of cells of a Life whose every pattern is a start
MaxLifeCells == 9
\* largest width of an Elementry whose every row is a start
MaxRowW == 4
\* the steps followed from a start
MaxGen == 3

as_u8(b) == IF b THEN 1 ELSE 0

\* Life::get
Life_get(cells, x, y) == get(cells, x, y, 0)

\* Life::step: live_count of the cell (x, y)
live_count(cells, x, y) ==
    as_u8(Life_get(cells, x - 1, y - 1)) + as_u8(Life_get(cells, x - 1, y + 0))
        + as_u8(Life_get(cells, x - 1, y + 1))
        + as_u8(Life_get(cells, x + 0, y - 1)) + as_u8(Life_get(cells, x + 0, y + 1))
        + as_u8(Life_get(cells, x + 1, y - 1)) + as_u8(Life_get(cells, x + 1, y + 0))
        + as_u8(Life_get(cells, x + 1, y + 1))

\* a variant of is_alive in which a dead cell is also born of two neighbours
is_alive_of_two(alive, live) == live = 2 \/ live = 3

\* Life::step: is_alive
is_alive(alive, live) == IF alive THEN live = 2 \/ live = 3 ELSE live = 3

\* a variant of changed that counts births only
changed_births_only(old, now) == ~old /\ now

\* the cell counts as updated: self.get(x, y) != is_alive, old != is_alive
changed(old, now) == old # now

\* Life::step: the body of the loops for one cell, is_alive computed
Life_cell(st, c, old, now) ==
    [scratch |-> set(st.scratch, c[1], c[2], 0, now),
     count   |-> st.count + as_u8(changed(old, now))]

\* Life::step: the loops over y and x, st = [scratch, count]
RECURSIVE Life_loop(_, _, _)
Life_loop(cells, st, cs) ==
    IF cs = <<>> THEN st
    ELSE Life_loop(cells,
                   Life_cell(st, Head(cs), Life_get(cells, Head(cs)[1], Head(cs)[2]),
                             is_alive(Life_get(cells, Head(cs)[1], Head(cs)[2]),
                                      live_count(cells, Head(cs)[1], Head(cs)[2]))),
                   Tail(cs))

\* Life::step before the swap: the scratch grid and the count
Life_step(cells, scratch) ==
    Life_loop(cells, [scratch |-> scratch, count |-> 0], LoopOrder(cells))

\* Elementry::get
Elementry_get(cells, x) == get(cells, x, 1, 0)

\* a variant of Elementry_c that reads the neighbours the other way round
Elementry_c_mirrored(cells, x) ==
    4 * as_u8(Elementry_get(cells, x + 1)) + 2 * as_u8(Elementry_get(cells, x + 0))
        + as_u8(Elementry_get(cells, x - 1))

\* Elementry::step: c, the three cells around x as a number
Elementry_c(cells, x) ==
    4 * as_u8(Elementry_get(cells, x - 1)) + 2 * as_u8(Elementry_get(cells, x + 0))
        + as_u8(Elementry_get(cells, x + 1))

\* Elementry::step: the body of the loop for one cell, is_alive computed
Elementry_cell(st, x, old, now) ==
    [scratch |-> set(st.scratch, x, 1, 0, now),
     count   |-> st.count + as_u8(changed(old, now))]

\* Elementry::step: the loop over x, st = [scratch, count]
RECURSIVE Elementry_loop(_, _, _, _)
Elementry_loop(cells, rule, st, xs) ==
    IF xs = <<>> THEN st
    ELSE Elementry_loop(cells, rule,
                        Elementry_cell(st, Head(xs), Elementry_get(cells, Head(xs)),
                                       TestBit(rule, Elementry_c(cells, Head(xs)))),
                        Tail(xs))

\* Elementry::step before the swap: the scratch grid and the count
Elementry_step(cells, scratch, rule) ==
    Elementry_loop(cells, rule, [scratch |-> scratch, count |-> 0],
                   [k \in 1..cells.width |-> k - 1])

\* the grid of the given dimensions whose live cells are S
Pattern(w, h, S) == new_with_fn(w, h, 1, [c \in (0..(w - 1)) \X (0..(h - 1)) \X {0} |-> c \in S])

Patterns(w, h) == {Pattern(w, h, S) : S \in SUBSET ((0..(w - 1)) \X (0..(h - 1)) \X {0})}

LifeDims == {d \in (1..MaxW) \X (1..MaxH) : d[1] * d[2] <= MaxLifeCells}

\* the cells handed to Life::new_with_cells
LifeCells == UNION {Patterns(d[1], d[2]) : d \in LifeDims}

\* the cells handed to Elementry::new_with_cells
ElementryCells == UNION {Patterns(w, 1) : w \in 1..MaxRowW}

\* test::check_square_lives: the cells before the step
check_square_lives ==
    SetAll(new(5, 5, 1), <<<<1, 1, 0>>, <<2, 1, 0>>, <<1, 2, 0>>, <<2, 2, 0>>>>, TRUE)

\* test::check_spinner_spins: the cells before the step
check_spinner_spins ==
    SetAll(new(5, 5, 1), <<<<1, 1, 0>>, <<1, 2, 0>>, <<1, 3, 0>>>>, TRUE)

\* test::check_single_seed: the live cells of the generations the test asserts
check_single_seed ==
    <<{32},
      {31, 32, 33},
      {30, 31, 34},
      {29, 30, 32, 33, 34, 35},
      {28, 29, 32, 36},
      {27, 28, 30, 31, 32, 33, 35, 36, 37},
      {26, 27, 30, 35, 38},
      {25, 26, 28, 29, 30, 31, 34, 35, 36, 37, 38, 39},
      {24, 25, 28, 32, 33, 34, 40},
      {23, 24, 26, 27, 28, 29, 31, 32, 35, 39, 40, 41},
      {22, 23, 26, 31, 33, 34, 35, 36, 38, 39, 42},
      {21, 22, 24, 25, 26, 27, 30, 31, 33, 38, 40, 41, 42, 43},
      {20, 21, 24, 28, 29, 30, 33, 34, 37, 38, 40, 44},
      {19, 20, 22, 23, 24, 25, 27, 28, 31, 32, 33, 35, 36, 37, 40, 41, 43, 44, 45},
      {18, 19, 22, 27, 29, 30, 31, 35, 38, 39, 40, 43, 46},
      {17, 18, 20, 21, 22, 23, 26, 27, 29, 32, 34, 35, 36, 37, 38, 41, 42, 43, 44, 45,
        46, 47},
      {16, 17, 20, 24, 25, 26, 29, 30, 31, 32, 34, 39, 40, 41, 48},
      {15, 16, 18, 19, 20, 21, 23, 24, 27, 28, 29, 34, 35, 38, 39, 42, 47, 48, 49},
      {14, 15, 18, 23, 25, 26, 27, 30, 33, 34, 36, 37, 38, 40, 41, 42, 43, 46, 47, 50},
      {13, 14, 16, 17, 18, 19, 22, 23, 25, 28, 29, 30, 31, 32, 33, 36, 40, 44, 45, 46,
        48, 49, 50, 51},
      {12, 13, 16, 20, 21, 22, 25, 26, 27, 28, 34, 35, 36, 37, 39, 40, 41, 43, 44, 48,
        52},
      {11, 12, 14, 15, 16, 17, 19, 20, 23, 24, 25, 29, 33, 34, 39, 43, 45, 47, 48, 49,
        51, 52, 53},
      {10, 11, 14, 19, 21, 22, 23, 26, 28, 29, 30, 32, 33, 35, 38, 39, 40, 42, 43, 45,
        47, 51, 54},
      {9, 10, 12, 13, 14, 15, 18, 19, 21, 24, 25, 26, 28, 32, 35, 36, 37, 38, 42, 45,
        47, 48, 50, 51, 52, 53, 54, 55},
      {8, 9, 12, 16, 17, 18, 21, 22, 23, 24, 28, 29, 31, 32, 33, 34, 35, 39, 41, 42,
        43, 44, 45, 47, 50, 56},
      {7, 8, 10, 11, 12, 13, 15, 16, 19, 20, 21, 25, 27, 28, 31, 36, 38, 39, 41, 47,
        48, 49, 50, 51, 55, 56, 57},
      {6, 7, 10, 15, 17, 18, 19, 22, 24, 25, 27, 29, 30, 31, 32, 35, 36, 38, 41, 42,
        46, 47, 52, 54, 55, 58},
      {5, 6, 8, 9, 10, 11, 14, 15, 17, 20, 21, 22, 24, 27, 29, 33, 34, 35, 38, 39, 40,
        41, 43, 45, 46, 48, 51, 52, 54, 56, 57, 58, 59},
      {4, 5, 8, 12, 13, 14, 17, 18, 19, 20, 24, 25, 26, 27, 29, 30, 32, 33, 36, 37,
        38, 43, 45, 48, 49, 50, 51, 54, 56, 60},
      {3, 4, 6, 7, 8, 9, 11, 12, 15, 16, 17, 21, 23, 24, 29, 32, 34, 35, 36, 39, 42,
        43, 45, 46, 47, 48, 52, 53, 54, 56, 57, 59, 60, 61},
      {2, 3, 6, 11, 13, 14, 15, 18, 20, 21, 23, 25, 28, 29, 30, 31, 32, 34, 37, 38,
        39, 40, 41, 42, 45, 49, 51, 52, 56, 59, 62},
      {1, 2, 4, 5, 6, 7, 10, 11, 13, 16, 17, 18, 20, 23, 25, 26, 27, 28, 34, 35, 36,
        37, 43, 44, 45, 46, 48, 49, 51, 53, 55, 56, 57, 58, 59, 60, 61, 62, 63}>>

\* the variables that no simulation touches
InitSim ==
    /\ overflow_checks = TRUE
    /\ panicked = FALSE
    /\ call = NoCall
    /\ ret = NoRet
    /\ pre = grid.buf
    /\ FlipperIdle
    /\ text = NoText

\* Life::new_with_cells(cells), and Life::new(5, 5) with the cells of the tests set
InitLife ==
    /\ \/ grid \in LifeCells /\ sim = [NoSim EXCEPT !.kind = "Life", !.scratch = grid]
       \/ /\ grid \in {check_square_lives, check_spinner_spins}
          /\ sim = [NoSim EXCEPT !.kind = "Life", !.scratch = new(5, 5, 1)]
    /\ InitSim

\* Elementry::new_with_cells(rule, cells), and Elementry::new(30, 64) with sim.set(32, true)
InitElementry ==
    /\ \/ /\ grid \in ElementryCells
          /\ \E rule \in 0..255 :
                sim = [NoSim EXCEPT !.kind = "Elementry", !.scratch = grid, !.rule = rule]
       \/ /\ grid = set(new(64, 1, 1), 32, 1, 0, TRUE)
          /\ sim = [NoSim EXCEPT !.kind = "Elementry", !.scratch = new(64, 1, 1), !.rule = 30]
    /\ InitSim

InitSims == InitLife \/ InitElementry

\* the steps followed: every generation the test asserts, MaxGen elsewhere
GenLimit ==
    IF sim.kind = "Elementry" /\ grid.width = 64 THEN Len(check_single_seed) - 1 ELSE MaxGen

\* core::mem::swap(&mut self.cells, &mut self.scratch); count
SimStepped(op, st) ==
    /\ grid' = st.scratch
    /\ sim' = [sim EXCEPT !.scratch = grid, !.gen = @ + 1]
    /\ call' = Call(op, 0, 0, 0, FALSE)
    /\ ret' = RetCount(st.count)
    /\ pre' = grid.buf
    /\ UNCHANGED <<panicked, overflow_checks, text>>
    /\ UNCHANGED flipperVars

LifeStep ==
    /\ sim.kind = "Life" /\ sim.gen < GenLimit
    /\ SimStepped("Life::step", Life_step(grid, sim.scratch))

ElementryStep ==
    /\ sim.kind = "Elementry" /\ sim.gen < GenLimit
    /\ SimStepped("Elementry::step", Elementry_step(grid, sim.scratch, sim.rule))

NextSims ==
    \/ LifeStep
    \/ ElementryStep

SpecSims == InitSims /\ [][NextSims]_vars

---------------------------------------------------------------------------
(* BitGrid::parse.  A text is held as the sequence of its lines (what         *)
(* text.lines() yields), a line as the sequence of its chars, all ASCII.      *)

\* most lines of a text, and most chars of a line
MaxLines == 2
MaxLineLen == 2

\* the chars of the texts: a marker, another char, and the start of a comment
Chars == {"1", "0", "#"}

Lines == UNION {[1..n -> Chars] : n \in 0..MaxLineLen}

Texts == UNION {[1..n -> Lines] : n \in 0..MaxLines}

\* tests::check_parse_diagonal: text (indoc! has removed the indentation)
check_parse_diagonal ==
    <<<<"#", " ", "4", "x", "4">>,
     <<"O", ".", ".", ".">>,
     <<".", "X", ".", ".">>,
     <<".", ".", "O", ".", " ", "#", " ", "T", "h", "i", "s", " ", "c", "o", "m", "m",
       "e", "n", "t", " ", "s", "h", "o", "u", "l", "d", " ", "b", "e", " ", "i", "g", "n",
       "o", "r", "e", "d">>,
     <<".", ".", ".", "O">>>>

\* tests::check_parse_diagonal_rev: text
check_parse_diagonal_rev ==
    <<<<"#", " ", "4", "x", "4">>,
     <<" ", " ", " ", "O">>,
     <<" ", " ", "O">>,
     <<" ", "X">>,
     <<"O">>>>

\* the doc example of to_image: "1000\n01000\n0010\n0001"
to_image_example ==
    <<<<"1", "0", "0", "0">>,
     <<"0", "1", "0", "0", "0">>,
     <<"0", "0", "1", "0">>,
     <<"0", "0", "0", "1">>>>

\* usize `n - 1`; v = -1 stands for usize::MAX, which a build without overflow checks
\* is left with, and which `as Index` turns into -1
usize_pred(n) == [v |-> n - 1, ovf |-> n = 0]

\* text.lines().count() - 1
parse_dim_y(lines) == usize_pred(Len(lines))

\* text.lines().next().map(|l| l.len() - 1).unwrap_or(0)
parse_dim_x(lines) ==
    IF lines = <<>> THEN [v |-> 0, ovf |-> FALSE] ELSE usize_pred(Len(lines[1]))

\* line.split_once("#").unwrap_or((line, "")).0
split_once(line) ==
    IF \E i \in 1..Len(line) : line[i] = "#"
    THEN SubSeq(line, 1, (CHOOSE i \in 1..Len(line) :
                             /\ line[i] = "#"
                             /\ \A j \in 1..(i - 1) : line[j] # "#") - 1)
    ELSE line

\* grid.set(x as _, y as _, z as _, true); st = [grid, y, panicked].  idx takes the
\* remainder by the extents: a panic where the width or the height is 0
parse_set(st, x) ==
    IF st.grid.width = 0 \/ st.grid.height = 0
    THEN [st EXCEPT !.panicked = TRUE]
    ELSE IF Faults(st.grid, idx(st.grid, x, st.y, 0))
    THEN [st EXCEPT !.panicked = TRUE]
    ELSE [st EXCEPT !.grid = set(st.grid, x, st.y, 0, TRUE)]

\* for (x, c) in line.chars().enumerate(), from x on
RECURSIVE parse_chars(_, _, _, _)
parse_chars(st, line, x, markers) ==
    IF st.panicked \/ x >= Len(line) THEN st
    ELSE parse_chars(IF line[x + 1] \in markers THEN parse_set(st, x) ELSE st,
                     line, x + 1, markers)

\* the body of the loop over the lines, line being the part before '#'
parse_line(st, line, markers) ==
    IF line = <<>> THEN st
    ELSE [parse_chars(st, line, 0, markers) EXCEPT !.y = @ + 1]

\* for line in text.lines()
RECURSIVE parse_lines(_, _, _)
parse_lines(st, lines, markers) ==
    IF st.panicked \/ lines = <<>> THEN st
    ELSE parse_lines(parse_line(st, split_once(Head(lines)), markers), Tail(lines), markers)

\* BitGrid::parse: [grid, y, panicked].  The subtractions panic under overflow checks;
\* without them a width of usize::MAX with a height of 1 or more asks vec! for about
\* 2^61 bytes, which ends the program.
parse(lines, markers) ==
    IF (parse_dim_y(lines).ovf \/ parse_dim_x(lines).ovf) /\ overflow_checks
    THEN [grid |-> NoGrid, y |-> 0, panicked |-> TRUE]
    ELSE IF parse_dim_x(lines).v = -1 /\ parse_dim_y(lines).v >= 1
    THEN [grid |-> NoGrid, y |-> 0, panicked |-> TRUE]
    ELSE parse_lines([grid |-> new(parse_dim_x(lines).v, parse_dim_y(lines).v, 1),
                      y |-> 0, panicked |-> FALSE],
                     lines, markers)

\* the program is about to call BitGrid::parse(text, set)
InitParse ==
    /\ \/ text \in {[lines |-> t, set |-> {"1"}] : t \in Texts}
       \/ text \in {[lines |-> check_parse_diagonal, set |-> {"O", "X"}],
                    [lines |-> check_parse_diagonal_rev, set |-> {"O", "X"}],
                    [lines |-> to_image_example, set |-> {"1"}]}
    /\ grid = NoGrid
    /\ overflow_checks \in BOOLEAN
    /\ panicked = FALSE
    /\ call = NoCall
    /\ ret = NoRet
    /\ pre = grid.buf
    /\ FlipperIdle
    /\ sim = NoSim

\* the variables after BitGrid::parse left st
Parsed(st) ==
    /\ panicked' = st.panicked
    /\ grid' = IF st.panicked THEN grid ELSE st.grid
    /\ call' = Call("parse", 0, 0, 0, FALSE)
    /\ ret' = NoRet
    /\ pre' = grid.buf
    /\ UNCHANGED <<overflow_checks, sim, text>>
    /\ UNCHANGED flipperVars

Parse ==
    /\ Ready /\ call.op = "new"
    /\ Parsed(parse(text.lines, text.set))

NextParse == Parse

SpecParse == InitParse /\ [][NextParse]_vars

---------------------------------------------------------------------------
(* BitFlipper::set_dir *)

\* largest number of cells of a grid of SpecSetDir
MaxDirCells == 2

\* pos.a.unsigned_abs().max(1) as u64, and the same of a direction component
clamped(a) == Max(Abs(a), 1)

\* (a * d1 * d2 / d3 / d4) as i32, in u64
rescale(a, d1, d2, d3, d4) == (((a * d1) * d2) \div d3) \div d4

\* BitFlipper::set_dir
set_dir(st, new_dir) ==
    [st EXCEPT
        !.pos = <<rescale(clamped(st.pos[1]), clamped(new_dir[2]), clamped(new_dir[3]),
                          clamped(st.dir[2]), clamped(st.dir[3])),
                  rescale(clamped(st.pos[2]), clamped(new_dir[1]), clamped(new_dir[3]),
                          clamped(st.dir[1]), clamped(st.dir[3])),
                  rescale(clamped(st.pos[3]), clamped(new_dir[1]), clamped(new_dir[2]),
                          clamped(st.dir[1]), clamped(st.dir[2]))>>,
        !.dir = new_dir]

InitSetDir ==
    /\ InitFlipper
    /\ Cells(grid.width, grid.height, grid.depth) <= MaxDirCells

\* set_dir(new_dir): prev.mid is the BitFlipper before the call
SetDir(new_dir) ==
    /\ Ready
    /\ Stepped("set_dir", 0, set_dir(Flipper, new_dir),
               [pos |-> pos, dir_sign |-> dir_sign, mid |-> Flipper])

\* the caller has looked at the BitFlipper after a step
ReturnStep == call.op = "step" /\ ReturnFlipper

NextSetDir ==
    \/ Ready /\ \E n \in (-MaxStep)..MaxStep : Step(n)
    \/ Ready /\ \E v \in Dirs : SetDir(v)
    \/ ReturnStep

SpecSetDir == InitSetDir /\ [][NextSetDir]_vars

---------------------------------------------------------------------------
(* Two BitFlippers stepped together *)

\* grids of the given dimensions that are not empty: every cell set, every other cell
\* set, the first cell set
GridsOf(w, h, d) ==
    {new_with_fn(w, h, d, f) : f \in CellFns(w, h, d)} \cup {set(new(w, h, d), 0, 0, 0, TRUE)}

\* BitFlipper::new(dims, dir) and BitFlipper::new_with_grid(g, dir), g of the same dims
InitTwins ==
    /\ overflow_checks = TRUE
    /\ \E d \in FlipDims, v \in Dirs :
          /\ grid = new(d[1], d[2], d[3])
          /\ pos = new_with_grid(grid, v).pos
          /\ dir = new_with_grid(grid, v).dir
          /\ dir_sign = new_with_grid(grid, v).dir_sign
          /\ \E g \in GridsOf(d[1], d[2], d[3]) : twin = new_with_grid(g, v)
    /\ flipped = <<>>
    /\ panicked = FALSE
    /\ call = NoCall
    /\ ret = NoRet
    /\ pre = grid.buf
    /\ prev = NoPrev
    /\ sim = NoSim
    /\ text = NoText

\* step(n) on both; flipped and twin.flipped are the logs of this call
StepBoth(n) ==
    /\ ~panicked /\ ~twin.panicked
    /\ SteppedWith("step", n, step(Flipper, n),
                   [pos |-> pos, dir_sign |-> dir_sign, mid |-> Flipper],
                   step([twin EXCEPT !.flipped = <<>>], n))

NextTwins == \E n \in {-1, 1} : StepBoth(n)

SpecTwins == InitTwins /\ [][NextTwins]_vars

---------------------------------------------------------------------------
(* Two BitFlippers of directions that differ in sign only *)

\* largest number of cells of a grid of SpecSigns
MaxSignCells == 2

SignDims == {d \in Dims : Cells(d[1], d[2], d[3]) <= MaxSignCells}

\* the directions with the magnitudes of v: each nonzero component either way
SignVariants(v) == {w \in Dirs : \A a \in 1..3 : Abs(w[a]) = Abs(v[a])}

\* BitFlipper::new(dims, v) and BitFlipper::new(dims, w), w a sign variant of v
InitSigns ==
    /\ overflow_checks = TRUE
    /\ \E d \in SignDims, v \in Dirs :
          /\ grid = new(d[1], d[2], d[3])
          /\ pos = new_with_grid(grid, v).pos
          /\ dir = new_with_grid(grid, v).dir
          /\ dir_sign = new_with_grid(grid, v).dir_sign
          /\ \E w \in SignVariants(v) : twin = new_with_grid(grid, w)
    /\ flipped = <<>>
    /\ panicked = FALSE
    /\ call = NoCall
    /\ ret = NoRet
    /\ pre = grid.buf
    /\ prev = NoPrev
    /\ sim = NoSim
    /\ text = NoText

NextSigns == \E n \in {-1, 1} : StepBoth(n)

SpecSigns == InitSigns /\ [][NextSigns]_vars

---------------------------------------------------------------------------
(* A BitFlipper stepped for ever *)

\* largest number of cells of a grid of SpecRecur
MaxRecurCells == 4

RecurDims == {d \in Dims : Cells(d[1], d[2], d[3]) <= MaxRecurCells}

\* the directions with a nonzero component
MovingDirs == Dirs \ {<<0, 0, 0>>}

\* BitFlipper::new(dims, dir), dir not zero
InitRecur ==
    /\ overflow_checks = TRUE
    /\ \E d \in RecurDims, v \in MovingDirs :
          /\ grid = new(d[1], d[2], d[3])
          /\ pos = new_with_grid(grid, v).pos
          /\ dir = new_with_grid(grid, v).dir
          /\ dir_sign = new_with_grid(grid, v).dir_sign
    /\ flipped = <<>>
    /\ panicked = FALSE
    /\ call = NoCall
    /\ ret = NoRet
    /\ pre = grid.buf
    /\ prev = NoPrev
    /\ twin = NoTwin
    /\ sim = NoSim
    /\ text = NoText

\* step(1), called again as soon as it has returned
Tick ==
    /\ ~panicked
    /\ Stepped("step", 1, step(Flipper, 1),
               [pos |-> pos, dir_sign |-> dir_sign, mid |-> Flipper])

NextRecur == Tick

\* the caller's part of a Tick: step(1) is called unless the program has panicked, and
\* the record of the call is what the BitFlipper was
StepCalled ==
    /\ ~panicked
    /\ prev' = [pos |-> pos, dir_sign |-> dir_sign, mid |-> Flipper]

\* the caller never stops calling step(1): a call that can be made is made, and every
\* step of the specification that makes one is a Tick
SpecRecur == InitRecur /\ [][NextRecur]_vars /\ WF_prev(StepCalled)

---------------------------------------------------------------------------
(* The claims *)

\* the grid as it was immediately before the last call
PreGrid == [grid EXCEPT !.buf = pre]

\* the coordinate of the last call
CallCell == <<call.x, call.y, call.z>>

\* the number of bits in which two buffers of equal length differ
BitsDiffering(b1, b2) == SumSeq([i \in 1..Len(b1) |-> count_ones(BitXor(b1[i], b2[i]))])

\* the in-range cells in which two grids of equal dimensions differ
CellsDiffering(g1, g2) == {c \in InRange(g1) : get(g1, c[1], c[2], c[3]) # get(g2, c[1], c[2], c[3])}

RECURSIVE Reverse(_)
Reverse(q) == IF q = <<>> THEN <<>> ELSE Append(Reverse(Tail(q)), Head(q))

\* C1: after fill(v), through BitGrid's override, through the trait's provided loop and
\* through Elementry::clear_alive, every in-range cell reads v.
C1_FillSetsEveryCell ==
    call.op \in {"fill", "Grid::fill", "Elementry::clear_alive"}
        => \A c \in InRange(grid) : get(grid, c[1], c[2], c[3]) = call.elem

\* C2: after clear() (Grid::clear on a BitGrid, Life::clear, Elementry::clear) every
\* in-range cell reads false and is_empty() is true.
C2_ClearLeavesEmpty ==
    call.op \in {"clear", "Life::clear", "Elementry::clear"}
        => /\ \A c \in InRange(grid) : ~get(grid, c[1], c[2], c[3])
           /\ is_empty(grid)

\* C3: with a direction that is nonzero on some axis, step(n) makes exactly |n| calls on
\* the backing grid, all of them flip, and a single tick changes exactly one cell (and
\* exactly one bit of the buffer).
C3_OneFlipPerTick ==
    (call.op = "step" /\ dir # <<0, 0, 0>>)
        => /\ ~panicked
           /\ Len(flipped) = Abs(call.x)
           /\ \A k \in 1..Len(flipped) : flipped[k][1] = "flip"
           /\ Abs(call.x) = 1 =>
                /\ Cardinality(CellsDiffering(PreGrid, grid)) = 1
                /\ BitsDiffering(pre, grid.buf) = 1

C3_Witness ==
    /\ call.op = "step" /\ call.x = -2
    /\ dir = <<1, 2, 0>>
    /\ Len(flipped) = 2
    /\ pos # <<0, 0, 0>>

\* C4: step(n) followed by step(-n), n >= 0, returns pos and the grid to what they were
\* before, the backward run flipping the cells of the forward run in reverse order.
C4_ForthAndBack ==
    call.op = "step;step"
        => /\ ~panicked
           /\ pos = prev.pos
           /\ grid.buf = pre
           /\ flipped = Reverse(prev.mid.flipped)

C4_Witness ==
    /\ call.op = "step;step" /\ call.x = 2
    /\ dir = <<2, -1, 1>>
    /\ prev.pos # <<0, 0, 0>>
    /\ prev.mid.pos # prev.pos
    /\ prev.mid.grid.buf # pre
    /\ prev.mid.dir_sign # prev.dir_sign

\* C5: get, set and flip with any signed coordinate resolve to a wrapped coordinate
\* 0 <= c' < extent on every axis and a byte inside the buffer, and never fault.
C5_EveryCoordinateResolves ==
    call.op \in {"get", "set", "flip"}
        => /\ ~panicked
           /\ idx(grid, call.x, call.y, call.z).wx \in Xs(grid)
           /\ idx(grid, call.x, call.y, call.z).wy \in Ys(grid)
           /\ idx(grid, call.x, call.y, call.z).wz \in Zs(grid)
           /\ ~idx(grid, call.x, call.y, call.z).big
           /\ idx(grid, call.x, call.y, call.z).byte < Len(grid.buf)

\* the bit number of cell (x mod width, y mod height, z mod depth)
WrappedBit(g, x, y, z) ==
    (x % g.width) + (y % g.height) * g.width + (z % g.depth) * g.width * g.height

C7_SetContract ==
    call.op = "set"
        => /\ ~panicked
           /\ ret.b = get(PreGrid, call.x, call.y, call.z)
           /\ get(grid, call.x, call.y, call.z) = call.elem
           /\ \A c \in InRange(grid) \ {CallCell} :
                  get(grid, c[1], c[2], c[3]) = get(PreGrid, c[1], c[2], c[3])
           /\ (~call.elem /\ PreGrid = set(new(grid.width, grid.height, grid.depth),
                                          call.x, call.y, call.z, TRUE))
                  => is_empty(grid)

C7_Witness ==
    /\ call.op = "set" /\ ~call.elem /\ ret.b
    /\ Len(grid.buf) = 2
    /\ CallCell = <<2, 2, 0>>
    /\ is_empty(grid)

\* C8: flip(c) with c in range, BitGrid's own and the trait's get + set alike, returns
\* the prior value of the cell, inverts it, and changes exactly one bit of the buffer.
C8_FlipContract ==
    call.op \in {"flip", "Grid::flip"}
        => /\ ~panicked
           /\ ret.b = get(PreGrid, call.x, call.y, call.z)
           /\ get(grid, call.x, call.y, call.z) = ~ret.b
           /\ CellsDiffering(PreGrid, grid) = {CallCell}
           /\ BitsDiffering(pre, grid.buf) = 1

C8_Witness ==
    /\ call.op = "flip" /\ ret.b
    /\ Len(grid.buf) = 2
    /\ CallCell = <<2, 2, 0>>
    /\ count_set(grid) = 3

C8_WitnessDefault ==
    /\ call.op = "Grid::flip" /\ ~ret.b
    /\ CallCell = <<1, 1, 1>>
    /\ count_set(grid) = 2

Diffed == call.op = "diff_with" /\ ~panicked

\* the buffer holds the byte-ceiling of the cell count
Packed(g) ==
    /\ 8 * Len(g.buf) >= Cells(g.width, g.height, g.depth)
    /\ 8 * (Len(g.buf) - 1) < Cells(g.width, g.height, g.depth)
    /\ count_set(g) + count_unset(g) = 8 * Len(g.buf)

\* C10: in every state reached by new, set, flip, fill, clear and diff_with, of the grid
\* and of the grid diff_with returns, the buffer length is ceil(width*height*depth / 8)
\* and count_set() + count_unset() = 8 * buffer length.
C10_PackingInvariant ==
    /\ Packed(grid)
    /\ Diffed => Packed(ret.diff)

C10_Witness ==
    /\ Diffed
    /\ Cells(grid.width, grid.height, grid.depth) = 9
    /\ Len(ret.diff.buf) = 2
    /\ count_set(grid) = 16
    /\ count_set(ret.diff) = 11

\* the linear index of an in-range cell
Linear(g, c) == c[1] + c[2] * g.width + c[3] * g.width * g.height

\* every in-range cell reads true
AllSet(g) == \A c \in InRange(g) : get(g, c[1], c[2], c[3])

\* a, the result of idx for the in-range cell c, is (L / 8, L % 8) inside the buffer
IdxIsLinear(g, c, a) ==
    /\ ~a.ovf /\ ~a.big
    /\ a.byte = Linear(g, c) \div 8
    /\ a.bit = Linear(g, c) % 8
    /\ a.byte < Len(g.buf)

\* the number of the bit that idx resolved to
BitNumber(a) == 8 * a.byte + a.bit

\* idx reads nothing of the grid but its dimensions, which no call changes: its map is
\* stated of the grid of every dimension as new returns it
IdxMap ==
    /\ \A c \in InRange(grid) : IdxIsLinear(grid, c, idx(grid, c[1], c[2], c[3]))
    /\ Cardinality({BitNumber(idx(grid, c[1], c[2], c[3])) : c \in InRange(grid)})
          = Cells(grid.width, grid.height, grid.depth)

\* C11: idx maps every in-range (x, y, z) to (L / 8, L % 8), L = x + y*width +
\* z*width*height, inside the buffer and injectively (the cells resolve to as many bits
\* as there are cells); once every in-range cell of a grid of 8k cells is set, the buffer
\* is k bytes of 0xFF.
C11_LinearIndex ==
    /\ call.op = "new" => IdxMap
    /\ (Cells(grid.width, grid.height, grid.depth) % 8 = 0 /\ AllSet(grid))
          => /\ 8 * Len(grid.buf) = Cells(grid.width, grid.height, grid.depth)
             /\ \A i \in 1..Len(grid.buf) : grid.buf[i] = 255

C11_Witness ==
    /\ call.op = "set" /\ call.elem /\ ~ret.b
    /\ CallCell = <<1, 0, 1>>
    /\ Cells(grid.width, grid.height, grid.depth) = 8
    /\ pre = <<223>>
    /\ grid.buf = <<255>>

\* C12: the grid new returns, of any dimensions, 0x0x0 included, has every cell false:
\* no read of it faults, get is false at every in-range coordinate, is_empty() is true,
\* count_set() is 0 and count_unset() is every bit of the buffer.
C12_NewIsEmpty ==
    /\ ~panicked
    /\ is_empty(grid)
    /\ count_set(grid) = 0
    /\ \A c \in InRange(grid) : ~get(grid, c[1], c[2], c[3])
    /\ call.op = "is_empty" => ret.b
    /\ call.op = "count_set" => ret.n = 0
    /\ call.op = "count_unset" => ret.n = 8 * Len(grid.buf)
    /\ call.op = "get" => ~ret.b

C12_Witness ==
    /\ call.op = "count_unset" /\ ret.n = 0
    /\ grid = [width |-> 0, height |-> 0, depth |-> 0, buf |-> <<>>]

C12_WitnessCells ==
    /\ call.op = "get" /\ CallCell = <<2, 2, 1>>
    /\ Len(grid.buf) = 3

\* the log entry of a flip of the diagonal cell (k, k, k)
DiagonalFlip(k) == <<"flip", k, k, k>>

\* C13: on an N x N x N grid with direction (1, 1, 1) the k-th forward step from
\* construction, k = 0 .. N-1, flips the cell (k, k, k) and no other; on a fresh 1x1x1
\* grid one step leaves cell (0, 0, 0) set.
C13_DiagonalOrder ==
    /\ ~panicked
    /\ \A k \in 1..Min(Len(flipped), grid.width) : flipped[k] = DiagonalFlip(k - 1)
    /\ (grid.width = 1 /\ Len(flipped) = 1 /\ is_empty(prev.mid.grid))
          => get(grid, 0, 0, 0) /\ count_set(grid) = 1

C13_Witness ==
    /\ call.op = "step" /\ call.x = 1
    /\ grid.width = 3
    /\ is_empty(prev.mid.grid)
    /\ flipped = <<DiagonalFlip(0), DiagonalFlip(1), DiagonalFlip(2)>>
    /\ count_set(grid) = 3

C13_WitnessOne ==
    /\ call.op = "step" /\ call.x = 1
    /\ grid.width = 1 /\ Len(flipped) = 1 /\ is_empty(prev.mid.grid)
    /\ grid.buf = <<1>>

\* C14: after 2N forward steps from construction on an N x N x N grid with direction
\* (1, 1, 1) the flips are the diagonal from (0,0,0) to (N-1,N-1,N-1) and then the
\* diagonal back, nothing else: the grid is as constructed (all false when it started
\* all false) and pos is the origin.
C14_DiagonalSweep ==
    Len(flipped) = 2 * grid.width
        => /\ ~panicked
           /\ pos = <<0, 0, 0>>
           /\ \A k \in 1..grid.width :
                 /\ flipped[k] = DiagonalFlip(k - 1)
                 /\ flipped[2 * grid.width + 1 - k] = DiagonalFlip(k - 1)
           /\ grid = prev.mid.grid
           /\ is_empty(prev.mid.grid) => is_empty(grid)

C14_Witness ==
    /\ Len(flipped) = 2 * grid.width
    /\ grid.width = 3
    /\ call.op = "step" /\ call.x = 1
    /\ is_empty(prev.mid.grid) /\ is_empty(grid)
    /\ pre # grid.buf
    /\ dir_sign = <<-1, -1, -1>>

\* -|n|, which every i32 n has
NegAbs(n) == IF n > 0 THEN -n ELSE n

\* r is a multiple of |n|
MultipleOf(r, n) == i32_rem(r, i32_abs(n).v) = 0

\* some multiple of |n| above i is an i32: the greatest one up to i32::MAX is above i
FitsAbove(i, n) ==
    IF n = I32_MIN THEN i < 0 ELSE I32_MAX - (I32_MAX % Abs(n)) > i

\* some multiple of |n| below i is an i32: the least one from i32::MIN is below i
FitsBelow(i, n) ==
    IF n = I32_MIN THEN i > I32_MIN
    ELSE IF I32_MAX % Abs(n) = Abs(n) - 1 THEN i > I32_MIN
    ELSE (I32_MAX % Abs(n)) - I32_MAX < i

\* r - |n| <= i
NoneBetweenBelow(r, n, i) == r < I32_MIN - NegAbs(n) \/ r + NegAbs(n) <= i

\* r + |n| >= i
NoneBetweenAbove(r, n, i) == r > I32_MAX + NegAbs(n) \/ r - NegAbs(n) >= i

\* C15: next_multiple_of_n_in_direction(i, n, dir), n # 0, dir # 0, returns the least
\* multiple of |n| above i when dir > 0 and the greatest multiple of |n| below i when
\* dir < 0, wherever an i32 holds that multiple; positive_modulo(i, n) returns a value in
\* 0 .. |n| - 1.
C15_NextMultiple ==
    /\ (call.op = "next_multiple_of_n_in_direction" /\ call.z > 0 /\ FitsAbove(call.x, call.y))
          => /\ ~panicked
             /\ MultipleOf(ret.n, call.y)
             /\ ret.n > call.x
             /\ NoneBetweenBelow(ret.n, call.y, call.x)
    /\ (call.op = "next_multiple_of_n_in_direction" /\ call.z < 0 /\ FitsBelow(call.x, call.y))
          => /\ ~panicked
             /\ MultipleOf(ret.n, call.y)
             /\ ret.n < call.x
             /\ NoneBetweenAbove(ret.n, call.y, call.x)
    /\ call.op = "positive_modulo"
          => /\ ~panicked
             /\ ret.n >= 0
             /\ ret.n + NegAbs(call.y) < 0

\* the two grids have the same width, height and depth
SameDims(g1, g2) ==
    g1.width = g2.width /\ g1.height = g2.height /\ g1.depth = g2.depth

\* C16: a.diff_with(b), a and b of the same dimensions, returns a grid of those
\* dimensions whose every cell is get_a XOR get_b and whose every byte is the XOR of the
\* two bytes; a is left as it was, b.diff_with(a) is the same grid, and a.diff_with(a)
\* is empty.
C16_DiffIsXor ==
    (call.op = "diff_with" /\ SameDims(grid, ret.other))
        => /\ ~panicked
           /\ SameDims(ret.diff, grid)
           /\ Len(ret.diff.buf) = Len(grid.buf)
           /\ \A c \in InRange(grid) :
                 get(ret.diff, c[1], c[2], c[3])
                     = (get(grid, c[1], c[2], c[3]) # get(ret.other, c[1], c[2], c[3]))
           /\ \A i \in 1..Len(grid.buf) :
                 ret.diff.buf[i] = BitXor(grid.buf[i], ret.other.buf[i])
           /\ grid.buf = pre
           /\ ret.diff = diff_with(ret.other, grid)
           /\ ret.other = grid => is_empty(ret.diff)

C16_Witness ==
    /\ Diffed /\ SameDims(grid, ret.other)
    /\ grid.width = 3 /\ grid.height = 3
    /\ grid.buf = <<170, 0>>
    /\ ret.other.buf = <<255, 1>>
    /\ ret.diff.buf = <<85, 1>>

C16_WitnessSelf ==
    /\ Diffed /\ ret.other = grid
    /\ ~is_empty(grid)
    /\ is_empty(ret.diff)

\* C17: diff_with with a grid whose width, height or depth differs from the receiver's
\* faults at the call and returns no grid.
C17_DiffFaultsOnMismatch ==
    (call.op = "diff_with"
     /\ ~SameDims(grid, [width |-> call.x, height |-> call.y, depth |-> call.z]))
        => panicked /\ ret = NoRet

\* the eight neighbours of a cell
Around == <<<<-1, -1>>, <<-1, 0>>, <<-1, 1>>, <<0, -1>>, <<0, 1>>, <<1, -1>>, <<1, 0>>, <<1, 1>>>>

\* the cell (x mod width, y mod height) of a grid of depth 1
TorusCell(g, x, y) == get(g, x % g.width, y % g.height, 0)

\* the live ones among the eight neighbours of (x, y) on the torus
LiveAround(g, x, y) ==
    SumSeq([k \in 1..8 |-> IF TorusCell(g, x + Around[k][1], y + Around[k][2]) THEN 1 ELSE 0])

\* Conway's rule for the cell (x, y) of the generation g
Conway(g, x, y) ==
    IF TorusCell(g, x, y) THEN LiveAround(g, x, y) \in {2, 3} ELSE LiveAround(g, x, y) = 3

\* C18: Life::step leaves the Conway generation of the cells before it, the eight
\* neighbours read with wrap-around, and returns the number of cells that differ between
\* the two generations: 0 for the 2x2 block and 4 for the blinker on a 5x5 grid.
C18_LifeStep ==
    call.op = "Life::step"
        => /\ ~panicked
           /\ SameDims(grid, PreGrid)
           /\ \A c \in InRange(grid) : get(grid, c[1], c[2], c[3]) = Conway(PreGrid, c[1], c[2])
           /\ ret.n = Cardinality(CellsDiffering(PreGrid, grid))
           /\ PreGrid = check_square_lives => ret.n = 0
           /\ PreGrid = check_spinner_spins => ret.n = 4

C18_Witness ==
    /\ call.op = "Life::step" /\ sim.gen = 1
    /\ PreGrid = check_spinner_spins
    /\ ret.n = 4
    /\ grid = SetAll(new(5, 5, 1), <<<<0, 2, 0>>, <<1, 2, 0>>, <<2, 2, 0>>>>, TRUE)

C18_WitnessTorus ==
    /\ call.op = "Life::step" /\ sim.gen = 1
    /\ grid.width = 3 /\ grid.height = 3
    /\ count_set(PreGrid) = 3
    /\ ret.n = 6

StepOps == {"Life::step", "Elementry::step"}

\* C19: a step() of Life or of Elementry that returns 0 leaves the cells as they were,
\* and the step() after one that returned 0 returns 0 and leaves the cells as they were.
C19_StillForever ==
    [][/\ (call'.op \in StepOps /\ ret'.n = 0)
            => /\ SameDims(grid, grid')
               /\ CellsDiffering(grid, grid') = {}
       /\ (call.op \in StepOps /\ ret.n = 0)
            => /\ ret'.n = 0
               /\ SameDims(grid, grid')
               /\ CellsDiffering(grid, grid') = {}]_vars

C19_Witness ==
    /\ call.op = "Life::step" /\ ret.n = 0
    /\ sim.gen = 3
    /\ ~is_empty(grid)
    /\ ~is_empty(sim.scratch)
    /\ grid = sim.scratch

C19_WitnessRow ==
    /\ call.op = "Elementry::step" /\ ret.n = 0
    /\ sim.gen = 2
    /\ sim.rule = 204
    /\ ~is_empty(grid)

\* bit k of the rule byte
RuleBit(rule, k) == (rule \div (2 ^ k)) % 2 = 1

\* the x whose cell is alive
Alive(g) == {x \in Xs(g) : get(g, x, 0, 0)}

\* C20: Elementry::step gives cell x the bit 4*left + 2*self + right of the rule, left
\* and right being the cells x-1 and x+1 of the row before the step, wrapped, and
\* returns the number of cells that changed; rule 30 on 64 cells seeded at x = 32 passes
\* through the generations the test lists.
C20_ElementryStep ==
    /\ call.op = "Elementry::step"
          => /\ ~panicked
             /\ SameDims(grid, PreGrid)
             /\ \A x \in Xs(grid) :
                   get(grid, x, 0, 0)
                       = RuleBit(sim.rule, 4 * as_u8(TorusCell(PreGrid, x - 1, 0))
                                           + 2 * as_u8(TorusCell(PreGrid, x, 0))
                                           + as_u8(TorusCell(PreGrid, x + 1, 0)))
             /\ ret.n = Cardinality(CellsDiffering(PreGrid, grid))
    /\ (sim.kind = "Elementry" /\ grid.width = 64)
          => Alive(grid) = check_single_seed[sim.gen + 1]

C20_Witness ==
    /\ call.op = "Elementry::step"
    /\ grid.width = 64 /\ sim.rule = 30
    /\ sim.gen = 31
    /\ Alive(grid) = check_single_seed[32]

C20_WitnessRule ==
    /\ call.op = "Elementry::step"
    /\ grid.width = 4 /\ sim.rule = 110
    /\ sim.gen = 3
    /\ ret.n = 2

\* the line is not empty
NonEmpty(line) == line # <<>>

\* the rows of a text: its lines up to '#', the empty ones left out
Rows(lines) == SelectSeq([k \in 1..Len(lines) |-> split_once(lines[k])], NonEmpty)

\* char x of row y is one of the markers
Marked(rows, x, y, markers) ==
    /\ y + 1 <= Len(rows)
    /\ x + 1 <= Len(rows[y + 1])
    /\ rows[y + 1][x + 1] \in markers

\* C21: BitGrid::parse(text, markers) returns a grid of width (first line length - 1)
\* and height (line count - 1) in which cell (x, y) is set exactly when char x of the
\* y-th non-empty row, comments stripped, is a marker; the '# 4x4' text of the tests
\* gives the 4x4 grid of its rows.
C21_Parse ==
    call.op = "parse"
        => /\ ~panicked
           /\ grid.depth = 1
           /\ grid.height = Len(text.lines) - 1
           /\ text.lines # <<>> => grid.width = Len(text.lines[1]) - 1
           /\ \A c \in InRange(grid) :
                 get(grid, c[1], c[2], c[3]) = Marked(Rows(text.lines), c[1], c[2], text.set)
           /\ text.lines = check_parse_diagonal
                 => grid = SetAll(new(4, 4, 1),
                                  <<<<0, 0, 0>>, <<1, 1, 0>>, <<2, 2, 0>>, <<3, 3, 0>>>>, TRUE)

\* the tests of the source pass, and the doc example gives a 3x3 grid
C21_Documented ==
    call.op = "parse"
        => /\ text.lines = check_parse_diagonal
                 => /\ ~panicked
                    /\ grid = SetAll(new(4, 4, 1),
                                     <<<<0, 0, 0>>, <<1, 1, 0>>, <<2, 2, 0>>, <<3, 3, 0>>>>, TRUE)
           /\ text.lines = check_parse_diagonal_rev
                 => /\ ~panicked
                    /\ grid = SetAll(new(4, 4, 1),
                                     <<<<3, 0, 0>>, <<2, 1, 0>>, <<1, 2, 0>>, <<0, 3, 0>>>>, TRUE)
           /\ text.lines = to_image_example
                 => /\ ~panicked
                    /\ grid = SetAll(new(3, 3, 1), <<<<0, 0, 0>>, <<1, 1, 0>>, <<2, 2, 0>>>>, TRUE)

\* the extent of the grid on axis a
Extent(g, a) == <<g.width, g.height, g.depth>>[a]

\* the scale factor of axis a under the direction d
ScaleOf(d, a) == <<ScaleX(d), ScaleY(d), ScaleZ(d)>>[a]

Axes == 1..3

\* the log entry is a flip of a cell of the grid
FlipInRange(e, g) ==
    /\ e[1] = "flip"
    /\ \A a \in Axes : 0 <= e[a + 1] /\ e[a + 1] < Extent(g, a)

\* C22: in every state reached from construction by step(n) calls, n of either sign,
\* each axis has 0 <= pos <= extent * scale, the scale being the product of the other
\* two axes' direction magnitudes clamped to >= 1, and every cell handed to grid.flip
\* is in range on every axis.
C22_Boundary ==
    /\ ~panicked
    /\ \A a \in Axes : 0 <= pos[a] /\ pos[a] <= Extent(grid, a) * ScaleOf(dir, a)
    /\ \A k \in 1..Len(flipped) : FlipInRange(flipped[k], grid)
    /\ \A k \in 1..Len(prev.mid.flipped) : FlipInRange(prev.mid.flipped[k], grid)

C22_Witness ==
    /\ call.op = "step" /\ call.x = -MaxStep
    /\ grid.width = 2 /\ grid.height = 2
    /\ dir = <<1, -MaxDir, 0>>
    /\ pos[1] = Extent(grid, 1) * ScaleOf(dir, 1)
    /\ dir_sign[1] = -1
    /\ flipped[MaxStep] = <<"flip", 1, 0, 0>>

\* the last call was step(1) or step(-1): one flip_and_advance_once, from prev.mid
IsTick == call.op = "step" /\ Abs(call.x) = 1 /\ ~panicked

\* dir * dir_sign * dir of the tick on axis a, dir_sign as the boundary tests left it
Travel(a) == dir[a] * dir_sign[a] * call.x

\* the next crossing the tick computed for axis a, and its distance
TickNext(a) ==
    next_multiple_of_n_in_direction(prev.mid.pos[a], ScaleOf(dir, a), Travel(a))

TickDist(a) == Abs(TickNext(a) - prev.mid.pos[a])

IsMultiple(m, s) == m % s = 0

\* n is the multiple of s nearest to p among those at p or beyond it, the way t points
NearestFrom(n, p, s, t) ==
    /\ IsMultiple(n, s)
    /\ IF t >= 0
       THEN n >= p /\ \A m \in p..(n - 1) : ~IsMultiple(m, s)
       ELSE n <= p /\ \A m \in (n + 1)..p : ~IsMultiple(m, s)

\* n is the multiple of s nearest to p among those strictly beyond it, the way t points
NearestBeyond(n, p, s, t) ==
    /\ IsMultiple(n, s)
    /\ IF t >= 0
       THEN n > p /\ \A m \in (p + 1)..(n - 1) : ~IsMultiple(m, s)
       ELSE n < p /\ \A m \in (n + 1)..(p - 1) : ~IsMultiple(m, s)

\* C23 as stated: the next crossing of each axis is the smallest multiple of its scale
\* factor at or beyond the position, in the direction of travel, so an axis on a multiple
\* has distance zero.
C23_NextCrossing ==
    IsTick
        => \A a \in Axes :
              /\ NearestFrom(TickNext(a), prev.mid.pos[a], ScaleOf(dir, a), Travel(a))
              /\ IsMultiple(prev.mid.pos[a], ScaleOf(dir, a)) => TickDist(a) = 0

\* C23, amended: the next crossing of each axis is the multiple of its scale factor
\* nearest to the position among those strictly beyond it in the direction of travel (an
\* axis that does not travel counts as travelling up), so every distance lies between 1
\* and the scale factor, an axis on a multiple has the whole scale factor as its
\* distance, and no axis is skipped.
C23_NextCrossingBeyond ==
    IsTick
        => \A a \in Axes :
              /\ NearestBeyond(TickNext(a), prev.mid.pos[a], ScaleOf(dir, a), Travel(a))
              /\ 1 <= TickDist(a) /\ TickDist(a) <= ScaleOf(dir, a)
              /\ IsMultiple(prev.mid.pos[a], ScaleOf(dir, a)) => TickDist(a) = ScaleOf(dir, a)

C23_Witness ==
    /\ IsTick /\ call.x = -1
    /\ dir = <<1, -MaxDir, 1>>
    /\ prev.mid.pos[1] = MaxDir /\ Travel(1) < 0 /\ TickDist(1) = MaxDir
    /\ pos[1] = MaxDir - 1

\* the last call was step(2) or step(-2): two ticks, the second from TickMid
IsTwoTicks == call.op = "step" /\ Abs(call.x) = 2 /\ ~panicked /\ Len(flipped) = 2

\* the BitFlipper between the two ticks
TickMid == flip_and_advance_once(prev.mid, Signum(call.x))

\* in the second tick axis a travels down from a position on a multiple of its scale
OnLineGoingDown(a, mid) == Travel(a) < 0 /\ IsMultiple(mid.pos[a], ScaleOf(dir, a))

\* the stretch of axis a between the positions p and q lies in the cell c
Within(p, q, c, s) == c * s <= Min(p, q) /\ Max(p, q) <= (c + 1) * s

\* what C24 says of axis a in the second of two ticks: the cell flipped has index
\* (p - 1) div s and is the cell of the preceding tick
DepartedCell(a, mid) ==
    /\ flipped[2][a + 1] = (mid.pos[a] - 1) \div ScaleOf(dir, a)
    /\ flipped[2][a + 1] = flipped[1][a + 1]

\* the cell flipped has index (p - 1) div s and is the cell the tick moves through; it is
\* the cell of the preceding tick just when the axis has turned at its far boundary
EnteredCell(a, mid) ==
    /\ flipped[2][a + 1] = (mid.pos[a] - 1) \div ScaleOf(dir, a)
    /\ pos[a] < mid.pos[a]
    /\ Within(mid.pos[a], pos[a], flipped[2][a + 1], ScaleOf(dir, a))
    /\ flipped[2][a + 1] = flipped[1][a + 1]
          <=> mid.pos[a] = Extent(grid, a) * ScaleOf(dir, a)

C25_FlipsTraversedCell ==
    (IsTick /\ dir # <<0, 0, 0>>)
        => /\ Len(flipped) = 1
           /\ \A a \in Axes :
                 Within(prev.mid.pos[a], pos[a], flipped[1][a + 1], ScaleOf(dir, a))

C25_Witness ==
    /\ IsTick /\ call.x = -1
    /\ dir = <<MaxDir, -1, MaxDir>>
    /\ flipped = <<<<"flip", 1, 1, 0>>>>
    /\ pos[1] < prev.mid.pos[1] /\ pos[2] > prev.mid.pos[2]
    /\ IsMultiple(prev.mid.pos[1], ScaleOf(dir, 1))

\* the distance from p to the multiple of s nearest to it among those strictly beyond
\* it, the way t points
DistBeyond(p, s, t) ==
    IF t >= 0 THEN s - (p % s) ELSE IF p % s = 0 THEN s ELSE p % s

\* the least of the three distances of the tick
LeastDist ==
    Min(DistBeyond(prev.mid.pos[1], ScaleOf(dir, 1), Travel(1)),
        Min(DistBeyond(prev.mid.pos[2], ScaleOf(dir, 2), Travel(2)),
            DistBeyond(prev.mid.pos[3], ScaleOf(dir, 3), Travel(3))))

\* C26: in an elementary step with some nonzero direction component every axis with a
\* nonzero component moves by the same amount m, the least of the three axes' distances
\* to their next multiple of the scale factor, 1 <= m <= the smallest scale factor; an
\* axis with a zero component does not move; afterwards some axis is on a multiple of
\* its scale factor.
C26_StraightProgress ==
    (IsTick /\ dir # <<0, 0, 0>>)
        => /\ 1 <= LeastDist
           /\ \A a \in Axes : LeastDist <= ScaleOf(dir, a)
           /\ LeastDist < I32_MAX
           /\ \A a \in Axes :
                 IF dir[a] = 0
                 THEN pos[a] = prev.mid.pos[a]
                 ELSE Abs(pos[a] - prev.mid.pos[a]) = LeastDist
           /\ \E a \in Axes : IsMultiple(pos[a], ScaleOf(dir, a))

C26_Witness ==
    /\ IsTick
    /\ dir = <<MaxDir, -MaxDir, -1>>
    /\ prev.mid.pos # <<0, 0, 0>>
    /\ LeastDist = MaxDir
    /\ pos[1] = prev.mid.pos[1] - MaxDir
    /\ pos[2] = prev.mid.pos[2] + MaxDir
    /\ ~IsMultiple(pos[3], ScaleOf(dir, 3))

\* the log entries of the last call
Logged == flipped \o prev.mid.flipped

\* C27: with a direction of one, two or three zero components step(n) never faults; an
\* axis whose direction component is zero keeps pos 0 in every reachable state, and every
\* cell flipped has coordinate 0 on it while the other axes trace on.
C27_ZeroDirection ==
    /\ (\E a \in Axes : dir[a] = 0) => ~panicked
    /\ \A a \in Axes :
          dir[a] = 0
              => /\ pos[a] = 0
                 /\ \A k \in 1..Len(Logged) : Logged[k][1] = "flip" /\ Logged[k][a + 1] = 0

C27_Witness ==
    /\ call.op = "step" /\ call.x = -MaxStep
    /\ dir = <<0, -MaxDir, 0>>
    /\ grid.height = 3
    /\ pos = <<0, 2, 0>>
    /\ flipped[MaxStep] = <<"flip", 0, 2, 0>>
    /\ get(grid, 0, 0, 0)

C27_WitnessStill ==
    /\ call.op = "step" /\ call.x = MaxStep
    /\ dir = <<0, 0, 0>>
    /\ Len(flipped) = MaxStep
    /\ pos = <<0, 0, 0>>

\* pos_a * s'_a div s_a, s the scale factor under the old and s' under the new direction
Rescaled(a) == (prev.mid.pos[a] * ScaleOf(dir, a)) \div ScaleOf(prev.mid.dir, a)

\* C28: set_dir(new_dir) leaves the grid alone and rescales each axis position by the
\* ratio of the scale factors with integer division, pos'_a = (pos_a * s'_a) div s_a; a
\* position of 0 stays 0 and set_dir(dir()) leaves pos unchanged.
C28_SetDir ==
    call.op = "set_dir"
        => /\ ~panicked
           /\ grid = prev.mid.grid
           /\ \A a \in Axes :
                 /\ pos[a] = Rescaled(a)
                 /\ prev.mid.pos[a] = 0 => pos[a] = 0
           /\ dir = prev.mid.dir => pos = prev.mid.pos

\* what set_dir does do: a position of 0 is rescaled as if it were 1
C28_SetDirClamped ==
    call.op = "set_dir"
        => /\ ~panicked
           /\ grid = prev.mid.grid
           /\ \A a \in Axes :
                 IF prev.mid.pos[a] = 0
                 THEN pos[a] = ScaleOf(dir, a) \div ScaleOf(prev.mid.dir, a)
                 ELSE pos[a] = Rescaled(a)

\* C29: two BitFlippers of the same dimensions and direction over grids of different
\* contents, given the same step calls, have the same pos after every tick and flip the
\* same cells in the same order; step changes neither dir nor the dimensions of a grid.
C29_Noninterference ==
    /\ ~panicked /\ ~twin.panicked
    /\ twin.pos = pos
    /\ twin.dir_sign = dir_sign
    /\ twin.flipped = flipped
    /\ twin.dir = dir
    /\ SameDims(twin.grid, grid)
    /\ call.op = "step"
          => /\ dir = prev.mid.dir
             /\ SameDims(grid, prev.mid.grid)

C29_Witness ==
    /\ call.op = "step" /\ call.x = -1
    /\ grid.width = 2 /\ grid.height = 2
    /\ dir = <<1, -MaxDir, 0>>
    /\ count_set(grid) = 3 /\ count_set(twin.grid) = 1
    /\ prev.mid.pos # <<0, 0, 0>>
    /\ Len(flipped) = 1 /\ twin.flipped = flipped
    /\ pos = twin.pos

\* the in-range cells for which get returns true
CellsSet(g) == {c \in InRange(g) : get(g, c[1], c[2], c[3])}

\* C30: in every state of a BitGrid reached by new, set, flip, fill, clear and diff_with
\* count_set() is the number of in-range cells that get reports set, whatever the cell
\* count; is_empty() holds exactly when no in-range cell is set, and two grids of equal
\* dimensions are equal exactly when all their cells agree.
C30_CountMatchesCells ==
    ~panicked
        => /\ count_set(grid) = Cardinality(CellsSet(grid))
           /\ is_empty(grid) <=> CellsSet(grid) = {}
           /\ (call.op = "diff_with" /\ SameDims(grid, ret.other))
                 => (grid = ret.other <=> CellsDiffering(grid, ret.other) = {})

\* where the cells fill the bytes of the buffer the counts do match
C30_WholeBytes ==
    (~panicked /\ Cells(grid.width, grid.height, grid.depth) % 8 = 0)
        => /\ count_set(grid) = Cardinality(CellsSet(grid))
           /\ is_empty(grid) <=> CellsSet(grid) = {}

---------------------------------------------------------------------------
\* the way an axis travels under a forward tick: the sign of dir times dir_sign
Heading(st, a) == Signum(st.dir[a]) * st.dir_sign[a]

\* C31: two BitFlippers over grids of the same dimensions and contents, whose
\* directions have the same magnitudes and any signs, given the same step calls and no
\* set_dir, have the same pos after every tick and flip the same cells in the same
\* order; once stepped, each axis of the two travels the same way.
C31_SignsDoNotMatter ==
    /\ ~panicked /\ ~twin.panicked
    /\ twin.dir \in SignVariants(dir)
    /\ twin.pos = pos
    /\ twin.flipped = flipped
    /\ twin.grid = grid
    /\ call.op = "step" => \A a \in 1..3 : Heading(twin, a) = Heading(Flipper, a)

C31_Witness ==
    /\ call.op = "step" /\ call.x = 1
    /\ grid.width = 2
    /\ dir = <<-1, MaxDir, 0>> /\ twin.dir = <<1, -MaxDir, 0>>
    /\ dir_sign # twin.dir_sign
    /\ prev.mid.pos # <<0, 0, 0>> /\ pos # <<0, 0, 0>>
    /\ Len(flipped) = 1 /\ twin.flipped = flipped
    /\ pos = twin.pos

---------------------------------------------------------------------------
\* the BitFlipper is at the origin and has made a tick
BackAtOrigin == call.op = "step" /\ pos = <<0, 0, 0>>

\* C32: under step(1) for ever, from construction with a direction that is not zero,
\* pos is at the origin again after at least one tick, and again and again after that;
\* no tick leaves pos where it was, no tick panics, and pos stays within the
\* boundaries of every axis.
C32_Recurrence ==
    /\ []<>BackAtOrigin
    /\ [](call.op = "step" => pos # prev.mid.pos)
    /\ []~panicked
    /\ [](\A a \in Axes : 0 <= pos[a] /\ pos[a] <= Extent(grid, a) * ScaleOf(dir, a))

C32_Witness ==
    /\ BackAtOrigin
    /\ grid.width = 2 /\ grid.height = 2
    /\ dir = <<1, -MaxDir, 0>>
    /\ prev.mid.pos = <<1, 1, 0>>
    /\ prev.mid.dir_sign = <<-1, 1, 0>>

=============================================================================
